---- MODULE Spec2Model ----
(***************************************************************************)
(* A model of scripts/deploy.sh: the PID-file based supervisor of the      *)
(* Ragflow server, its task-executor workers and the nginx web front end.  *)
(*                                                                         *)
(* One invocation of the script is a thread th[i] that runs the functions  *)
(* of its command (the `case "$1"` at the end of the script) one shell     *)
(* step at a time.  The operating system is the environment: a process may *)
(* exit at any time, a free pid may be taken by an unrelated process, and  *)
(* the PID directory may be emptied behind the script's back.              *)
(*                                                                         *)
(* The last part models web/scripts/fix-tailwindcss-plugin.js, the patcher *)
(* of the UmiJS Tailwind plugin that npm install runs: one run of it is    *)
(* one step on the plugin file.                                            *)
(***************************************************************************)
EXTENDS Integers, Sequences, FiniteSets, TLC

\* ---------------------------------------------------------------- bounds
MaxPid == 3          \* process ids are 1..MaxPid
MaxWorkers == 2      \* largest WORKER_COUNT an invocation is given
MaxStimuli == 4      \* commands typed plus environment events and faults in one behaviour
MaxPathLen == 6      \* pieces of text in a request path
MaxContentLen == 3   \* pieces, or fragments, of text in the plugin file

\* ------------------------------------------------------ program constants
DefaultWorkerCount == 2
DefaultServerPort == 9385
DefaultWebPort == 9222
FallbackServerPort == 9380
DefaultAdminPort == 9381

Pids == 1..MaxPid
Invs == {1, 2}

\* ------------------------------------------------------------- PID files
ServerFile == "ragflow_server.pid"
WebFile == "web_frontend.pid"
NginxFile == "nginx.pid"
WorkerFileNames ==
  <<"worker_0.pid", "worker_1.pid", "worker_2.pid", "worker_3.pid">>
WorkerFile(k) == WorkerFileNames[k + 1]
WorkerIds == 0..(MaxWorkers - 1)
WorkerFiles == {WorkerFile(k) : k \in WorkerIds}
Files == {ServerFile, WebFile, NginxFile} \cup WorkerFiles

\* A PID file is absent, or holds the decimal pid echoed into it.
Absent == -1

\* What else a PID file may hold: no text at all (Empty), or a text that is
\* the pid of no process ("0", "-3").
Empty == -2
BadContents == {Empty, 0, -3}

\* ----------------------------------------------------------- processes
\* A process is its command line, the last catchable signal sent to it,
\* what it was configured with (for nginx the configuration it loaded, for
\* the server the SERVER_PORT_FOR_WEB of its environment) and, for nginx,
\* the first request it served.
PYTHON == ".venv/bin/python"
RAGFLOW_SERVER == "api/ragflow_server.py"
TASK_EXECUTOR == "rag/svr/task_executor.py"
NGINX_CONF == "nginx_conf/nginx.conf"
RAGFLOW_CONF == "nginx_conf/ragflow.conf"
Digits == <<"0", "1", "2", "3">>

NoConf == [listen |-> 0, host |-> "", port |-> 0]

\* logs/: ragflow_server.log, worker_N.log and web_frontend.log, each named
\* here by the PID file of its service.  The content of a log is the output
\* of the launches it holds, oldest first, a launch being named by the pid of
\* its process (0: a process that was gone before it had a place in the
\* process table).  A log that is not there has no content.
Services == {ServerFile, WebFile} \cup WorkerFiles
NoLogs == [f \in Services |-> <<>>]

\* web/node_modules/@umijs/plugins/dist/tailwindcss.js: whether the file is
\* there and its text, a sequence of pieces of text.
NoFile == [exists |-> FALSE, text |-> <<>>]

NoDisk == [ragflow |-> NoConf, main |-> FALSE, logs |-> NoLogs, plugin |-> NoFile]

\* command > log: the file is emptied, then the output of launch `run` is written
Truncated(log, run) == <<run>>
\* What nginx did with a request: the path, the location block it selected
\* (its place in ragflow.conf, 0: none), the upstream it passed the request
\* to (none: the files under the root) and whether the block falls back to
\* /index.html.
NoUpstream == [host |-> "", port |-> 0]
NoReq == [path |-> <<>>, loc |-> 0, pass |-> NoUpstream, try |-> FALSE]

NoProc == [cmd |-> <<>>, sig |-> "none", conf |-> NoConf, served |-> NoReq]

ServerCmd == <<PYTHON, RAGFLOW_SERVER>>
WorkerCmd(k) == <<PYTHON, TASK_EXECUTOR, Digits[k + 1]>>
NginxCmd == <<"nginx", "-c", NGINX_CONF, "-g", "pid pids/nginx.pid;">>
OtherCmd == <<"unrelated">>

VARIABLES
  proc,    \* the OS process table: pid -> process (NoProc: no such process)
  pidf,    \* the pids/ directory: file -> Absent or the pid written in it
  disk,    \* nginx_conf/ (the generated ragflow.conf, whether nginx.conf exists) and logs/
  th,      \* the script invocations
  lastPid, \* the pid the kernel handed out last
  used     \* commands typed, environment events and faults so far

vars == <<proc, pidf, disk, th, lastPid, used>>

\* Something more may come from outside: a command, an event, a fault.
Budget == used < MaxStimuli

\* A liveness test that finds no process.
NeverRunning(pid) == FALSE

\* A liveness test that also looks at what the process is.
RunningAndOurs(pid) == pid \in Pids /\ proc[pid].cmd \notin {<<>>, OtherCmd}

\* A liveness test that takes a pid of no text for a live process.
RunningWhenEmpty(pid) == pid = Empty \/ (pid \in Pids /\ proc[pid].cmd # <<>>)

\* if [ -z "$pid" ]; then return 1; fi; ps -p "$pid": is there a process
\* with this id (ps -p with no pid, as ps -p $PID is for an empty file, fails
\* the same way)
is_process_running(pid) == pid # Empty /\ pid \in Pids /\ proc[pid].cmd # <<>>

Instances(c) == {p \in Pids : proc[p].cmd = c}

\* $!: the kernel hands out pids in increasing order, skipping those in use
\* and wrapping around at the largest pid.
RECURSIVE PidAfter(_, _)
PidAfter(p, n) ==
  LET q == (p % MaxPid) + 1 IN
  IF n = 0 THEN 0
  ELSE IF proc[q].cmd = <<>> THEN q
  ELSE PidAfter(q, n - 1)
NextPid == PidAfter(lastPid, MaxPid)

\* ----------------------------------------------------------- invocations
\* What a function reported when it returned: the function, the PID file of
\* the service it was about, the outcome, its status, whether the command it
\* launched could be executed, and whether nothing happened in the
\* environment since the function return before it.
Event(fn, f, res, rc, lok, quiet) ==
  [fn |-> fn, f |-> f, res |-> res, rc |-> rc, lok |-> lok, quiet |-> quiet]
NoEvent == Event("", "", "", 0, TRUE, FALSE)

IdleThread ==
  [cmd |-> "", pc |-> "idle", todo |-> <<>>, k |-> 0, glob |-> <<>>,
   pid |-> 0, lok |-> TRUE, given |-> -1, wc |-> 0, host |-> "", port |-> 0, out |-> <<>>, sent |-> <<>>,
   rc |-> 0, prev |-> NoEvent, touched |-> FALSE, raced |-> {},
   nofiles |-> TRUE, disk0 |-> NoDisk,
   wport |-> <<>>, pidf0 |-> [f \in Files |-> Absent],
   before |-> NoFile, fixes |-> {}, fixes0 |-> {}, io |-> <<>>, threw |-> ""]

\* The function returns: its outcome is reported, its status is $?, and the
\* invocation goes on with the next function of its command.
Ret(t, ev) ==
  [t EXCEPT !.out = Append(@, ev), !.rc = ev.rc,
            !.pc = IF t.todo = <<>> THEN "done" ELSE Head(t.todo),
            !.todo = IF t.todo = <<>> THEN <<>> ELSE Tail(t.todo),
            !.k = 0, !.glob = <<>>, !.pid = 0, !.lok = TRUE, !.touched = FALSE]

\* A function called from a loop returns into the loop.
RetTo(t, ev, pc) ==
  [t EXCEPT !.out = Append(@, ev), !.rc = ev.rc, !.pc = pc,
            !.pid = 0, !.lok = TRUE, !.touched = FALSE]

\* A loop ends with the status `rc` of its last command and reports nothing itself.
EndBulk(t, rc) ==
  [t EXCEPT !.rc = rc,
            !.pc = IF t.todo = <<>> THEN "done" ELSE Head(t.todo),
            !.todo = IF t.todo = <<>> THEN <<>> ELSE Tail(t.todo),
            !.k = 0, !.glob = <<>>, !.pid = 0, !.lok = TRUE]

\* A case statement whose restart starts the server before the delay.
ProgramStartFirst(cmd) ==
  CASE cmd = "start" -> <<"ss_check", "sws_loop">>
    [] cmd = "stop" -> <<"xs_check", "xws_glob">>
    [] cmd = "force-stop" -> <<"fs_server">>
    [] cmd = "restart" ->
         <<"xs_check", "xws_glob", "ss_check", "settle", "sws_loop">>
    [] cmd = "force-restart" -> <<"fs_server", "settle", "ss_check", "sws_loop">>
    [] cmd = "status" -> <<"st_server">>
    [] cmd = "start-ragflow-server" -> <<"ss_check">>
    [] cmd = "stop-ragflow-server" -> <<"xs_check">>
    [] cmd = "start-workers" -> <<"sws_loop">>
    [] cmd = "stop-workers" -> <<"xws_glob">>
    [] cmd = "start-web" -> <<"web_check">>
    [] cmd = "stop-web" -> <<"xweb_check">>
    [] OTHER -> <<"usage">>

\* A case statement whose stop also stops the web front end.
ProgramStopsWeb(cmd) ==
  CASE cmd = "start" -> <<"ss_check", "sws_loop">>
    [] cmd = "stop" -> <<"xs_check", "xws_glob", "xweb_check">>
    [] cmd = "force-stop" -> <<"fs_server">>
    [] cmd = "restart" ->
         <<"xs_check", "xws_glob", "settle", "ss_check", "sws_loop">>
    [] cmd = "force-restart" -> <<"fs_server", "settle", "ss_check", "sws_loop">>
    [] cmd = "status" -> <<"st_server">>
    [] cmd = "start-ragflow-server" -> <<"ss_check">>
    [] cmd = "stop-ragflow-server" -> <<"xs_check">>
    [] cmd = "start-workers" -> <<"sws_loop">>
    [] cmd = "stop-workers" -> <<"xws_glob">>
    [] cmd = "start-web" -> <<"web_check">>
    [] cmd = "stop-web" -> <<"xweb_check">>
    [] OTHER -> <<"usage">>

\* The functions each command runs, in order (the main case statement).
Program(cmd) ==
  CASE cmd = "start" -> <<"ss_check", "sws_loop">>
    [] cmd = "stop" -> <<"xs_check", "xws_glob">>
    [] cmd = "force-stop" -> <<"fs_server">>
    [] cmd = "restart" ->
         <<"xs_check", "xws_glob", "settle", "ss_check", "sws_loop">>
    [] cmd = "force-restart" -> <<"fs_server", "settle", "ss_check", "sws_loop">>
    [] cmd = "status" -> <<"st_server">>
    [] cmd = "start-ragflow-server" -> <<"ss_check">>
    [] cmd = "stop-ragflow-server" -> <<"xs_check">>
    [] cmd = "start-workers" -> <<"sws_loop">>
    [] cmd = "stop-workers" -> <<"xws_glob">>
    [] cmd = "start-web" -> <<"web_check">>
    [] cmd = "stop-web" -> <<"xweb_check">>
    [] OTHER -> <<"usage">>

\* The commands that act on one kind of service, and status and force-stop.
ServiceCommands ==
  {"start-ragflow-server", "stop-ragflow-server", "start-workers",
   "stop-workers", "start-web", "stop-web", "status", "force-stop"}

\* The commands that act on the server and the workers together, status,
\* a first argument the script does not know, and no argument at all.
BulkCommands == {"start", "stop", "restart", "status", "bogus", ""}

\* The first arguments the case statement has a branch for.
RecognizedCommands ==
  {"start", "stop", "force-stop", "restart", "force-restart", "status",
   "start-ragflow-server", "stop-ragflow-server", "start-workers",
   "stop-workers", "start-web", "stop-web"}

\* A script that starts no worker when WORKER_COUNT is unset.
WorkerCountNoDefault(given) == IF given = -1 THEN 0 ELSE given

\* WORKER_COUNT=${WORKER_COUNT:-2}; -1 stands for the variable being unset
WORKER_COUNT(given) == IF given = -1 THEN DefaultWorkerCount ELSE given

\* SERVER_HOST=${SERVER_HOST_FOR_WEB:-127.0.0.1}; "" stands for unset
SERVER_HOST(given) == IF given = "" THEN "127.0.0.1" ELSE given

\* A script whose default server port is the one of the fallback in start_web.
ServerPortFallbackDefault(given) == IF given = 0 THEN FallbackServerPort ELSE given

\* SERVER_PORT_FOR_WEB=${SERVER_PORT_FOR_WEB:-9385}; 0 stands for unset
SERVER_PORT_FOR_WEB(given) == IF given = 0 THEN DefaultServerPort ELSE given

\* SERVER_PORT=${SERVER_PORT_FOR_WEB:-9380}, of the variable as the line
\* above left it
SERVER_PORT(value) == IF value = 0 THEN FallbackServerPort ELSE value

\* The environment variables an invocation may be given: only the commands
\* that read a variable are given values of it.
WorkerCountsFor(cmd) ==
  IF cmd \in {"start", "restart", "force-restart", "start-workers"}
  THEN {-1} \cup (0..MaxWorkers) ELSE {-1}
HostsFor(cmd) == IF cmd = "start-web" THEN {"", "bad host"} ELSE {""}
PortsFor(cmd) ==
  IF cmd \in {"start-web", "start-ragflow-server"} THEN {0, 8080} ELSE {0}

Invoke(i, cmd, givenWc, givenHost, givenPort) ==
  /\ th[i].pc \in {"idle", "done"}
  /\ Budget
  /\ used' = used + 1
  /\ th' = [th EXCEPT ![i] =
       [IdleThread EXCEPT !.cmd = cmd, !.pc = Head(Program(cmd)),
                          !.todo = Tail(Program(cmd)),
                          !.given = givenWc,
                          !.wc = WORKER_COUNT(givenWc),
                          !.host = SERVER_HOST(givenHost),
                          !.port = givenPort,
                          !.prev = IF th[i].out = <<>> THEN NoEvent
                                   ELSE th[i].out[Len(th[i].out)],
                          !.touched = th[i].touched,
                          !.raced = th[i].raced,
                          !.nofiles = \A f \in Files : pidf[f] = Absent,
                          !.disk0 = disk]]
  /\ UNCHANGED <<proc, pidf, disk, lastPid>>

\* One invocation at a time: an operator types a command when the last one ended.
Begin(i) ==
  /\ \A j \in Invs : th[j].pc \in {"idle", "done"}
  /\ \E cmd \in ServiceCommands : \E w \in WorkerCountsFor(cmd) : \E h \in HostsFor(cmd) :
       Invoke(i, cmd, w, h, 0)

\* One invocation at a time, of the commands that read SERVER_PORT_FOR_WEB
\* and of stop-web, with the variable unset or set.
BeginWeb(i) ==
  /\ \A j \in Invs : th[j].pc \in {"idle", "done"}
  /\ \E cmd \in {"start-ragflow-server", "start-web", "stop-web"} :
       \E h \in HostsFor(cmd) : \E q \in PortsFor(cmd) : Invoke(i, cmd, -1, h, q)

BeginBulk(i) ==
  /\ \A j \in Invs : th[j].pc \in {"idle", "done"}
  /\ \E cmd \in BulkCommands : \E w \in WorkerCountsFor(cmd) : Invoke(i, cmd, w, "", 0)

\* Two operators, each typing a start command whenever their own last one
\* ended: the server, or the workers with WORKER_COUNT=1.
BeginConc(i) ==
  \E cmd \in {"start-ragflow-server", "start-workers"} : Invoke(i, cmd, 1, "", 0)

\* A script that ends its usage message with status 0.
UsageExitsZero(i) ==
  /\ th[i].pc = "usage"
  /\ th' = [th EXCEPT ![i] = Ret(@, Event("main", "", "Usage", 0, TRUE, ~th[i].touched))]
  /\ UNCHANGED <<proc, pidf, disk, lastPid, used>>

\* *) echo "使用方法: ..." ; exit 1
Usage(i) ==
  /\ th[i].pc = "usage"
  /\ th' = [th EXCEPT ![i] = Ret(@, Event("main", "", "Usage", 1, TRUE, ~th[i].touched))]
  /\ UNCHANGED <<proc, pidf, disk, lastPid, used>>

\* ------------------------------------------------------ start one service
\* The invocation is past the liveness check of the service of PID file f
\* and has not yet written the file.
InWindow(t, f) ==
  \/ f = ServerFile /\ t.pc \in {"ss_launch", "ss_record"}
  \/ f \in WorkerFiles /\ t.pc \in {"sw_launch", "sw_record"} /\ f = WorkerFile(t.k)
  \/ f = WebFile /\ t.pc \in {"web_pre", "web_conf", "web_test", "web_launch", "web_record"}

\* The invocation is past the liveness check of a stop of the service of PID
\* file f and has not yet removed the file.
InStopWindow(t, f) ==
  \/ f = ServerFile /\ t.pc \in {"xs_kill", "xs_rm", "xs_stale"}
  \/ f \in WorkerFiles /\ t.pc \in {"xw_kill", "xw_rm", "xw_stale"}
       /\ t.glob # <<>> /\ f = Head(t.glob)
  \/ f = WebFile /\ t.pc \in {"xweb_kill", "xweb_rm", "xweb_stale"}

\* A start that returns 0 when the service is already running.
StartCheckReturnsZero(i, fn, f, launchPc, backPc) ==
  IF pidf[f] # Absent /\ is_process_running(pidf[f])
  THEN LET ev == Event(fn, f, "AlreadyRunning", 0, TRUE, ~th[i].touched) IN
       /\ th' = [th EXCEPT ![i] = IF backPc = "" THEN Ret(@, ev) ELSE RetTo(@, ev, backPc)]
       /\ UNCHANGED <<proc, pidf, disk, lastPid, used>>
  ELSE /\ th' = [th EXCEPT ![i].pc = launchPc]
       /\ UNCHANGED <<proc, pidf, disk, lastPid, used>>

\* A start that does not look at the PID file.
StartCheckNoReturn(i, fn, f, launchPc, backPc) ==
  /\ th' = [th EXCEPT ![i].pc = launchPc]
  /\ UNCHANGED <<proc, pidf, disk, lastPid, used>>

\* if [ -f pid_file ]; PID=$(cat pid_file); if ps -p $PID; then ... return 1
StartCheck(i, fn, f, launchPc, backPc) ==
  IF pidf[f] # Absent /\ is_process_running(pidf[f])
  THEN LET ev == Event(fn, f, "AlreadyRunning", 1, TRUE, ~th[i].touched) IN
       /\ th' = [th EXCEPT ![i] = IF backPc = "" THEN Ret(@, ev) ELSE RetTo(@, ev, backPc)]
       /\ UNCHANGED <<proc, pidf, disk, lastPid, used>>
  ELSE /\ th' = [th EXCEPT ![i].pc = launchPc,
                           ![i].raced = IF \E j \in Invs \ {i} :
                                             InWindow(th[j], f) \/ InStopWindow(th[j], f)
                                        THEN @ \cup {f} ELSE @]
       /\ UNCHANGED <<proc, pidf, disk, lastPid, used>>

\* A launch that opens the log of the service for appending.
StartLaunchAppends(i, f, cmdline, env, recordPc) ==
  LET p == NextPid IN
  \E ok \in {TRUE} \cup {b \in {FALSE} : Budget} :
    /\ p # 0
    /\ proc' = [proc EXCEPT ![p] = [cmd |-> cmdline, sig |-> "none", conf |-> env, served |-> NoReq]]
    /\ disk' = [disk EXCEPT !.logs[f] = Append(@, p)]
    /\ lastPid' = p
    /\ th' = [th EXCEPT ![i].pc = recordPc, ![i].pid = p, ![i].lok = ok]
    /\ used' = IF ok THEN used ELSE used + 1
    /\ UNCHANGED pidf

\* nohup env ... "${PYTHON}" script > log 2>&1 &  ;  X_PID=$!
\* The fork gives a child with a fresh pid whether or not the command can be
\* executed (ok = FALSE: python or the script is missing); the child is there
\* until it exits.  The redirection empties the log of the service before
\* the child writes to it.
StartLaunch(i, f, cmdline, env, recordPc) ==
  LET p == NextPid IN
  \E ok \in {TRUE} \cup {b \in {FALSE} : Budget} :
    /\ p # 0
    /\ proc' = [proc EXCEPT ![p] = [cmd |-> cmdline, sig |-> "none", conf |-> env, served |-> NoReq]]
    /\ disk' = [disk EXCEPT !.logs[f] = Truncated(@, p)]
    /\ lastPid' = p
    /\ th' = [th EXCEPT ![i].pc = recordPc, ![i].pid = p, ![i].lok = ok]
    /\ used' = IF ok THEN used ELSE used + 1
    /\ UNCHANGED pidf

\* A start that reports without writing the PID file.
StartRecordNoWrite(i, fn, f, backPc) ==
  LET ev == Event(fn, f, "Started", 0, th[i].lok, ~th[i].touched) IN
  /\ th' = [th EXCEPT ![i] = IF backPc = "" THEN Ret(@, ev) ELSE RetTo(@, ev, backPc)]
  /\ UNCHANGED <<proc, pidf, disk, lastPid, used>>

\* echo $X_PID > pid_file ; echo "... 已启动"
StartRecord(i, fn, f, backPc) ==
  LET ev == Event(fn, f, "Started", 0, th[i].lok, ~th[i].touched) IN
  /\ pidf' = [pidf EXCEPT ![f] = th[i].pid]
  /\ th' = [th EXCEPT ![i] = IF backPc = "" THEN Ret(@, ev) ELSE RetTo(@, ev, backPc)]
  /\ UNCHANGED <<proc, disk, lastPid, used>>

StartServerCheck(i) ==
  /\ th[i].pc = "ss_check"
  /\ StartCheck(i, "start_ragflow_server", ServerFile, "ss_launch", "")

StartServerLaunch(i) ==
  /\ th[i].pc = "ss_launch"
  /\ StartLaunch(i, ServerFile, ServerCmd,
                 [NoConf EXCEPT !.port = SERVER_PORT_FOR_WEB(th[i].port)], "ss_record")

StartServerRecord(i) ==
  /\ th[i].pc = "ss_record"
  /\ StartRecord(i, "start_ragflow_server", ServerFile, "")

StartWorkerCheck(i) ==
  /\ th[i].pc = "sw_check"
  /\ StartCheck(i, "start_worker", WorkerFile(th[i].k), "sw_launch", "sws_sleep")

StartWorkerLaunch(i) ==
  /\ th[i].pc = "sw_launch"
  /\ StartLaunch(i, WorkerFile(th[i].k), WorkerCmd(th[i].k), NoConf, "sw_record")

StartWorkerRecord(i) ==
  /\ th[i].pc = "sw_record"
  /\ StartRecord(i, "start_worker", WorkerFile(th[i].k), "sws_sleep")

\* A loop that gives up at the first start_worker that returns nonzero.
WorkersLoopStopOnFailure(t, k) ==
  IF k < t.wc /\ t.rc = 0 THEN [t EXCEPT !.pc = "sw_check", !.k = k] ELSE EndBulk(t, t.rc)

\* for i in $(seq 0 $((WORKER_COUNT - 1))); do start_worker $i; sleep 1; done
WorkersLoop(t, k) ==
  IF k < t.wc THEN [t EXCEPT !.pc = "sw_check", !.k = k] ELSE EndBulk(t, 0)

StartWorkersLoop(i) ==
  /\ th[i].pc = "sws_loop"
  /\ th' = [th EXCEPT ![i] = WorkersLoop(@, 0)]
  /\ UNCHANGED <<proc, pidf, disk, lastPid, used>>

StartWorkersSleep(i) ==
  /\ th[i].pc = "sws_sleep"
  /\ th' = [th EXCEPT ![i] = WorkersLoop(@, th[i].k + 1)]
  /\ UNCHANGED <<proc, pidf, disk, lastPid, used>>

\* ------------------------------------------------------- stop one service
\* A stop that takes a PID file naming no live process for no PID file.
StopCheckStaleKept(i, fn, f, killPc, stalePc, backPc) ==
  IF pidf[f] = Absent \/ ~is_process_running(pidf[f])
  THEN LET ev == Event(fn, f, "NotRunning", 1, TRUE, ~th[i].touched) IN
       /\ th' = [th EXCEPT ![i] = IF backPc = "" THEN Ret(@, ev) ELSE RetTo(@, ev, backPc)]
       /\ UNCHANGED <<proc, pidf, disk, lastPid, used>>
  ELSE /\ th' = [th EXCEPT ![i].pid = pidf[f], ![i].pc = killPc]
       /\ UNCHANGED <<proc, pidf, disk, lastPid, used>>

\* if [ ! -f pid_file ]; then return 1; fi; PID=$(cat pid_file); if ps -p $PID
StopCheck(i, fn, f, killPc, stalePc, backPc) ==
  IF pidf[f] = Absent
  THEN LET ev == Event(fn, f, "NotRunning", 1, TRUE, ~th[i].touched) IN
       /\ th' = [th EXCEPT ![i] = IF backPc = "" THEN Ret(@, ev) ELSE RetTo(@, ev, backPc)]
       /\ UNCHANGED <<proc, pidf, disk, lastPid, used>>
  ELSE /\ th' = [th EXCEPT ![i].pid = pidf[f],
                           ![i].pc = IF is_process_running(pidf[f])
                                     THEN killPc ELSE stalePc,
                           ![i].raced = IF \E j \in Invs \ {i} :
                                             InWindow(th[j], f) \/ InStopWindow(th[j], f)
                                        THEN @ \cup {f} ELSE @]
       /\ UNCHANGED <<proc, pidf, disk, lastPid, used>>

\* kill [-s] $pid: the signal goes to whatever process has that id now;
\* SIGKILL ends it at once, SIGTERM and SIGQUIT are left for it to act on.
Signal(table, pid, sig) ==
  IF ~(pid \in Pids /\ table[pid].cmd # <<>>) THEN table
  ELSE IF sig = "KILL" THEN [table EXCEPT ![pid] = NoProc]
  ELSE [table EXCEPT ![pid].sig = sig]

\* What the invocation has sent so far, with one more signal if it was delivered.
Sent(t, pid, sig) ==
  IF is_process_running(pid)
  THEN [t EXCEPT !.sent = Append(@, <<pid, sig>>)] ELSE t

\* A stop that kills with SIGKILL.
StopKillNine(i, rmPc) ==
  /\ proc' = Signal(proc, th[i].pid, "KILL")
  /\ th' = [th EXCEPT ![i] = [Sent(@, th[i].pid, "KILL") EXCEPT !.pc = rmPc]]
  /\ UNCHANGED <<pidf, disk, lastPid, used>>

\* kill $PID
StopKill(i, rmPc) ==
  /\ proc' = Signal(proc, th[i].pid, "TERM")
  /\ th' = [th EXCEPT ![i] = [Sent(@, th[i].pid, "TERM") EXCEPT !.pc = rmPc]]
  /\ UNCHANGED <<pidf, disk, lastPid, used>>

\* A stop that leaves the PID file where it is.
StopRemoveKeepsFile(i, fn, f, res, backPc) ==
  LET ev == Event(fn, f, res, 0, TRUE, ~th[i].touched) IN
  /\ th' = [th EXCEPT ![i] = IF backPc = "" THEN Ret(@, ev) ELSE RetTo(@, ev, backPc)]
  /\ UNCHANGED <<proc, pidf, disk, lastPid, used>>

\* A stop that removes the PID file only once the process it signalled is gone.
StopRemoveWaits(i, fn, f, res, backPc) ==
  LET ev == Event(fn, f, res, 0, TRUE, ~th[i].touched) IN
  /\ ~is_process_running(th[i].pid)
  /\ pidf' = [pidf EXCEPT ![f] = Absent]
  /\ th' = [th EXCEPT ![i] = IF backPc = "" THEN Ret(@, ev) ELSE RetTo(@, ev, backPc)]
  /\ UNCHANGED <<proc, disk, lastPid, used>>

\* rm pid_file ; echo "... 已停止" / "... 未运行" (both branches end with status 0)
StopRemove(i, fn, f, res, backPc) ==
  LET ev == Event(fn, f, res, 0, TRUE, ~th[i].touched) IN
  /\ pidf' = [pidf EXCEPT ![f] = Absent]
  /\ th' = [th EXCEPT ![i] = IF backPc = "" THEN Ret(@, ev) ELSE RetTo(@, ev, backPc)]
  /\ UNCHANGED <<proc, disk, lastPid, used>>

StopServerCheck(i) ==
  /\ th[i].pc = "xs_check"
  /\ StopCheck(i, "stop_ragflow_server", ServerFile, "xs_kill", "xs_stale", "")

StopServerKill(i) ==
  /\ th[i].pc = "xs_kill"
  /\ StopKill(i, "xs_rm")

StopServerRemove(i) ==
  /\ th[i].pc = "xs_rm"
  /\ StopRemove(i, "stop_ragflow_server", ServerFile, "Stopped", "")

StopServerStale(i) ==
  /\ th[i].pc = "xs_stale"
  /\ StopRemove(i, "stop_ragflow_server", ServerFile, "NotRunning", "")

StopWorkerCheck(i) ==
  /\ th[i].pc = "xw_check"
  /\ StopCheck(i, "stop_worker", Head(th[i].glob), "xw_kill", "xw_stale", "xws_next")

StopWorkerKill(i) ==
  /\ th[i].pc = "xw_kill"
  /\ StopKill(i, "xw_rm")

StopWorkerRemove(i) ==
  /\ th[i].pc = "xw_rm"
  /\ StopRemove(i, "stop_worker", Head(th[i].glob), "Stopped", "xws_next")

StopWorkerStale(i) ==
  /\ th[i].pc = "xw_stale"
  /\ StopRemove(i, "stop_worker", Head(th[i].glob), "NotRunning", "xws_next")

StopWebCheck(i) ==
  /\ th[i].pc = "xweb_check"
  /\ StopCheck(i, "stop_web", WebFile, "xweb_kill", "xweb_stale", "")

StopWebKill(i) ==
  /\ th[i].pc = "xweb_kill"
  /\ StopKill(i, "xweb_rm")

StopWebRemove(i) ==
  /\ th[i].pc = "xweb_rm"
  /\ StopRemove(i, "stop_web", WebFile, "Stopped", "")

StopWebStale(i) ==
  /\ th[i].pc = "xweb_stale"
  /\ StopRemove(i, "stop_web", WebFile, "NotRunning", "")

\* "${PID_DIR}"/worker_*.pid: the worker files there are, in the shell's order
RECURSIVE GlobFrom(_)
GlobFrom(k) ==
  IF k >= MaxWorkers THEN <<>>
  ELSE IF pidf[WorkerFile(k)] # Absent
       THEN <<WorkerFile(k)>> \o GlobFrom(k + 1)
       ELSE GlobFrom(k + 1)
WorkerGlob == GlobFrom(0)

\* for pid_file in "${PID_DIR}"/worker_*.pid; do if [ -f "$pid_file" ]; then ...
\* The loop goes to the first of `files` that is still there, and ends with
\* the status of its last command when there is none.
GlobLoop(t, files, bodyPc, endPc) ==
  IF files # <<>> THEN [t EXCEPT !.glob = files, !.pc = bodyPc]
  ELSE IF endPc = "" THEN EndBulk(t, t.rc)
  ELSE [t EXCEPT !.glob = <<>>, !.pc = endPc]

\* A stop_workers that goes by WORKER_COUNT: the files of workers 0 to
\* WORKER_COUNT - 1 that are there.
RECURSIVE FilesUpTo(_, _)
FilesUpTo(k, n) ==
  IF k >= n THEN <<>>
  ELSE IF pidf[WorkerFile(k)] # Absent
       THEN <<WorkerFile(k)>> \o FilesUpTo(k + 1, n)
       ELSE FilesUpTo(k + 1, n)

StopWorkersByCount(i) ==
  /\ th[i].pc = "xws_glob"
  /\ th' = [th EXCEPT ![i] =
       GlobLoop([@ EXCEPT !.rc = 0], FilesUpTo(0, th[i].wc), "xws_test", "")]
  /\ UNCHANGED <<proc, pidf, disk, lastPid, used>>

StopWorkersGlob(i) ==
  /\ th[i].pc = "xws_glob"
  /\ th' = [th EXCEPT ![i] = GlobLoop([@ EXCEPT !.rc = 0], WorkerGlob, "xws_test", "")]
  /\ UNCHANGED <<proc, pidf, disk, lastPid, used>>

\* if [ -f "$pid_file" ]; then stop_worker "$worker_id"; fi
StopWorkersTest(i) ==
  /\ th[i].pc = "xws_test"
  /\ th' = [th EXCEPT ![i] =
       IF pidf[Head(th[i].glob)] # Absent THEN [@ EXCEPT !.pc = "xw_check"]
       ELSE GlobLoop([@ EXCEPT !.rc = 0], Tail(th[i].glob), "xws_test", "")]
  /\ UNCHANGED <<proc, pidf, disk, lastPid, used>>

\* A stop_workers that gives up at the first worker found not running.
StopWorkersNextGivesUp(i) ==
  /\ th[i].pc = "xws_next"
  /\ th' = [th EXCEPT ![i] =
       IF th[i].out # <<>> /\ th[i].out[Len(th[i].out)].res = "NotRunning"
       THEN EndBulk(@, 1)
       ELSE GlobLoop(@, Tail(th[i].glob), "xws_test", "")]
  /\ UNCHANGED <<proc, pidf, disk, lastPid, used>>

StopWorkersNext(i) ==
  /\ th[i].pc = "xws_next"
  /\ th' = [th EXCEPT ![i] = GlobLoop(@, Tail(th[i].glob), "xws_test", "")]
  /\ UNCHANGED <<proc, pidf, disk, lastPid, used>>

\* sleep 2 between the stops and the starts of restart and force-restart
Settle(i) ==
  LET ev == Event("sleep", "", "Settled", 0, TRUE, ~th[i].touched) IN
  /\ th[i].pc = "settle"
  /\ th' = [th EXCEPT ![i] = Ret(@, ev)]
  /\ UNCHANGED <<proc, pidf, disk, lastPid, used>>

\* ------------------------------------------------------ the web front end
\* The generated ragflow.conf: the port nginx listens on and the upstream of
\* the general API route.  nginx.conf is the same text every time.
GeneratedConf(host, port) ==
  [listen |-> DefaultWebPort, host |-> host,
   port |-> SERVER_PORT(SERVER_PORT_FOR_WEB(port))]

\* nginx -t: proxy_pass takes one argument, so a host with a blank in it is
\* a syntax error; the include of ragflow.conf needs nginx.conf to be there;
\* listen needs the number of a port.
ProxyPassArgs(host) == IF host = "bad host" THEN 2 ELSE 1
SyntaxOK(d) ==
  d.main /\ ProxyPassArgs(d.ragflow.host) = 1 /\ d.ragflow.listen \in 1..65535

\* WEB_PORT is a text: here the sequence of its characters, <<>> standing
\* for the variable being unset or empty.
DecimalDigits == <<"0", "1", "2", "3", "4", "5", "6", "7", "8", "9">>
DigitValue(c) == (CHOOSE d \in 1..10 : DecimalDigits[d] = c) - 1

\* WEB_PORT=${WEB_PORT:-9222}
WEB_PORT(given) == IF given = <<>> THEN <<"9", "2", "2", "2">> ELSE given

\* [[ "$port" =~ ^[0-9]+$ ]]
IsDecimal(s) == s # <<>> /\ \A k \in 1..Len(s) : \E d \in 1..10 : DecimalDigits[d] = s[k]

\* The digits of a decimal text from its first one that is not a leading zero.
RECURSIVE Significant(_)
Significant(s) == IF Len(s) > 1 /\ s[1] = "0" THEN Significant(Tail(s)) ELSE s

\* The number a decimal text of at most nine digits stands for.
RECURSIVE Value(_)
Value(s) ==
  IF s = <<>> THEN 0
  ELSE 10 * Value(SubSeq(s, 1, Len(s) - 1)) + DigitValue(s[Len(s)])

\* The integer tests of [ read their operands into an intmax_t (64 bits)
\* and end with status 2, "integer expression expected", for a text that
\* stands for more than 9223372036854775807.
IntmaxDigits ==
  <<"9", "2", "2", "3", "3", "7", "2", "0", "3", "6", "8", "5", "4", "7", "7",
    "5", "8", "0", "7">>
RECURSIVE LexLeq(_, _)
LexLeq(s, t) ==
  \/ s = <<>>
  \/ DigitValue(s[1]) < DigitValue(t[1])
  \/ s[1] = t[1] /\ LexLeq(Tail(s), Tail(t))
legal_number(s) ==
  LET g == Significant(s) IN
  Len(g) < Len(IntmaxDigits) \/ (Len(g) = Len(IntmaxDigits) /\ LexLeq(g, IntmaxDigits))

\* [ "$port" -lt n ] and [ "$port" -gt n ] as conditions of ||, for a decimal
\* text and an n of at most nine digits: true when the status is 0.
TestLt(s, n) ==
  legal_number(s) /\ Len(Significant(s)) <= 9 /\ Value(Significant(s)) < n
TestGt(s, n) ==
  legal_number(s) /\ (Len(Significant(s)) > 9 \/ Value(Significant(s)) > n)

\* if ! [[ "$port" =~ ^[0-9]+$ ]] || [ "$port" -lt 1 ] || [ "$port" -gt 65535 ];
\* then ... return 1; fi; return 0
validate_port(port) ==
  ~(~IsDecimal(port) \/ TestLt(port, 1) \/ TestGt(port, 65535))

\* listen ${WEB_PORT}; the port nginx takes from the directive, 0 where the
\* text is not the number of a port.
Listen(text) ==
  IF IsDecimal(text) /\ Len(Significant(text)) <= 5
     /\ Value(Significant(text)) \in 1..65535
  THEN Value(Significant(text)) ELSE 0

\* The ragflow.conf an invocation generates from its environment.
GeneratedConfFor(t) ==
  [GeneratedConf(t.host, t.port) EXCEPT !.listen = Listen(WEB_PORT(t.wport))]

\* The checks of start_web before it writes anything: the web directory, npm,
\* WEB_PORT, npm install, nginx, npm run build, dist/.
PreFailures ==
  {"no_web_dir", "no_npm", "bad_port", "install_failed", "no_nginx",
   "build_failed", "no_dist"}

\* How the checks can end: the web directory or npm may be missing; then
\* WEB_PORT decides; then the install, nginx, the build or dist/ may fail.
PreOutcomes(portOk) ==
  {w \in {"no_web_dir", "no_npm"} : Budget}
  \cup (IF portOk
        THEN {"ok"} \cup {w \in {"install_failed", "no_nginx", "build_failed", "no_dist"} : Budget}
        ELSE {"bad_port"})

\* A start_web that writes the configuration anew when the web front end
\* is already running.
StartWebCheckRegenerates(i) ==
  /\ th[i].pc = "web_check"
  /\ IF pidf[WebFile] # Absent /\ is_process_running(pidf[WebFile])
     THEN /\ th' = [th EXCEPT ![i] =
               Ret(@, Event("start_web", WebFile, "AlreadyRunning", 1, TRUE, ~th[i].touched))]
          /\ disk' = [disk EXCEPT !.ragflow = GeneratedConfFor(th[i]), !.main = TRUE]
     ELSE /\ th' = [th EXCEPT ![i].pc = "web_pre"]
          /\ disk' = disk
  /\ UNCHANGED <<proc, pidf, lastPid, used>>

StartWebCheck(i) ==
  /\ th[i].pc = "web_check"
  /\ StartCheck(i, "start_web", WebFile, "web_pre", "")

StartWebPre(i) ==
  /\ th[i].pc = "web_pre"
  /\ \E why \in PreOutcomes(validate_port(WEB_PORT(th[i].wport))) :
       IF why = "ok"
       THEN /\ th' = [th EXCEPT ![i].pc = "web_conf"]
            /\ UNCHANGED <<proc, pidf, disk, lastPid, used>>
       ELSE /\ th' = [th EXCEPT ![i] =
                 Ret(@, Event("start_web", WebFile, why, 1, TRUE, ~th[i].touched))]
            /\ used' = IF why = "bad_port" THEN used ELSE used + 1
            /\ UNCHANGED <<proc, pidf, disk, lastPid>>

\* cat > ragflow.conf <<EOF ... ; cat > nginx.conf <<EOF ...
StartWebGenConf(i) ==
  /\ th[i].pc = "web_conf"
  /\ disk' = [disk EXCEPT !.ragflow = GeneratedConfFor(th[i]), !.main = TRUE]
  /\ th' = [th EXCEPT ![i].pc = "web_test"]
  /\ UNCHANGED <<proc, pidf, lastPid, used>>

\* A start_web that goes on to launch nginx whatever nginx -t said.
StartWebTestIgnored(i) ==
  /\ th[i].pc = "web_test"
  /\ th' = [th EXCEPT ![i].pc = "web_launch"]
  /\ UNCHANGED <<proc, pidf, disk, lastPid, used>>

\* if ! nginx -t -c nginx.conf; then ... return 1; fi
StartWebTest(i) ==
  /\ th[i].pc = "web_test"
  /\ th' = [th EXCEPT ![i] =
       IF SyntaxOK(disk) THEN [@ EXCEPT !.pc = "web_launch"]
       ELSE Ret(@, Event("start_web", WebFile, "ConfigInvalid", 1, TRUE, ~th[i].touched))]
  /\ UNCHANGED <<proc, pidf, disk, lastPid, used>>

\* nginx -c nginx.conf -g "pid .../nginx.pid;" > web_frontend.log 2>&1
\* nginx reads the configuration on disk, binds the port, goes to the
\* background and writes nginx.pid; it fails, leaving no process and no
\* nginx.pid, when the port is held by another nginx or for a reason of the
\* host's.  The redirection empties web_frontend.log either way.
PortFree(port) ==
  \A q \in Pids : ~(proc[q].cmd = NginxCmd /\ proc[q].conf.listen = port)

StartWebLaunch(i) ==
  LET p == NextPid
      can == p # 0 /\ SyntaxOK(disk) /\ PortFree(disk.ragflow.listen)
  IN
  /\ th[i].pc = "web_launch"
  /\ \E ok \in {b \in {TRUE} : can} \cup {b \in {FALSE} : ~can \/ Budget} :
       IF ok
       THEN /\ proc' = [proc EXCEPT ![p] =
                 [cmd |-> NginxCmd, sig |-> "none", conf |-> disk.ragflow, served |-> NoReq]]
            /\ pidf' = [pidf EXCEPT ![NginxFile] = p]
            /\ lastPid' = p
            /\ disk' = [disk EXCEPT !.logs[WebFile] = Truncated(@, p)]
            /\ th' = [th EXCEPT ![i].pc = "web_record", ![i].pid = p, ![i].lok = TRUE]
            /\ UNCHANGED used
       ELSE /\ disk' = [disk EXCEPT !.logs[WebFile] = Truncated(@, 0)]
            /\ th' = [th EXCEPT ![i].pc = "web_record", ![i].lok = FALSE]
            /\ used' = IF can THEN used + 1 ELSE used
            /\ UNCHANGED <<proc, pidf, lastPid>>

\* if [ -f nginx.pid ]; then WEB_PID=$(cat nginx.pid); echo $WEB_PID > pid_file
\* else echo "警告: 无法获取 nginx PID"; return 1
StartWebRecord(i) ==
  /\ th[i].pc = "web_record"
  /\ IF pidf[NginxFile] # Absent
     THEN /\ pidf' = [pidf EXCEPT ![WebFile] = pidf[NginxFile]]
          /\ th' = [th EXCEPT ![i] =
               Ret(@, Event("start_web", WebFile, "Started", 0, th[i].lok, ~th[i].touched))]
     ELSE /\ pidf' = pidf
          /\ th' = [th EXCEPT ![i] =
               Ret(@, Event("start_web", WebFile, "NoPid", 1, th[i].lok, ~th[i].touched))]
  /\ UNCHANGED <<proc, disk, lastPid, used>>

\* -------------------------------------------------------- request dispatch
\* A request path, as nginx matches it after merging adjacent slashes, is a
\* sequence of pieces of text that begins with "/".  No piece is the
\* beginning of another, so one text begins with another exactly when its
\* pieces begin with the pieces of the other.
PathPieces == {"/", "api", "v1", "admin", "static/css"}

Paths ==
  {s \in UNION {[1..n -> PathPieces] : n \in 1..MaxPathLen} :
     /\ s[1] = "/"
     /\ \A k \in 1..(Len(s) - 1) : ~(s[k] = "/" /\ s[k + 1] = "/")}

IsPrefix(s, t) == Len(s) <= Len(t) /\ SubSeq(t, 1, Len(s)) = s

\* ADMIN_HOST=${ADMIN_HOST_FOR_WEB:-127.0.0.1}; ADMIN_PORT=${ADMIN_PORT_FOR_WEB:-9381}
AdminUpstream == [host |-> "127.0.0.1", port |-> DefaultAdminPort]

\* A ragflow.conf whose general API block comes before the admin block.
LocationsApiFirst(conf) ==
  << [regex |-> TRUE, pats |-> {<<"/", "v1">>, <<"/", "api">>},
      pass |-> [host |-> conf.host, port |-> conf.port], try |-> FALSE],
     [regex |-> TRUE, pats |-> {<<"/", "api", "/", "v1", "/", "admin">>},
      pass |-> AdminUpstream, try |-> FALSE],
     [regex |-> FALSE, pats |-> {<<"/">>}, pass |-> NoUpstream, try |-> TRUE],
     [regex |-> TRUE,
      pats |-> {<<"/", "static/css", "/">>, <<"/", "static/js", "/">>,
                <<"/", "static/media", "/">>},
      pass |-> NoUpstream, try |-> FALSE] >>

\* The location blocks of the generated ragflow.conf, in the order of the file:
\*   location ~ ^/api/v1/admin           { proxy_pass http://ADMIN_HOST:ADMIN_PORT; }
\*   location ~ ^/(v1|api)               { proxy_pass http://SERVER_HOST:SERVER_PORT; }
\*   location /                          { try_files $uri $uri/ /index.html; }
\*   location ~ ^/static/(css|js|media)/ { expires 10y; access_log off; }
\* A block is a regular expression or a prefix, the texts a path has to begin
\* with to match it, the upstream it passes to, and whether it has try_files.
Locations(conf) ==
  << [regex |-> TRUE, pats |-> {<<"/", "api", "/", "v1", "/", "admin">>},
      pass |-> AdminUpstream, try |-> FALSE],
     [regex |-> TRUE, pats |-> {<<"/", "v1">>, <<"/", "api">>},
      pass |-> [host |-> conf.host, port |-> conf.port], try |-> FALSE],
     [regex |-> FALSE, pats |-> {<<"/">>}, pass |-> NoUpstream, try |-> TRUE],
     [regex |-> TRUE,
      pats |-> {<<"/", "static/css", "/">>, <<"/", "static/js", "/">>,
                <<"/", "static/media", "/">>},
      pass |-> NoUpstream, try |-> FALSE] >>

Matches(loc, path) == \E a \in loc.pats : IsPrefix(a, path)

\* How nginx selects the location of a request: the regular expressions are
\* tried in the order of the file and the first that matches is taken; when
\* none matches, the longest matching prefix is.
Select(locs, path) ==
  LET rx == {k \in DOMAIN locs : locs[k].regex /\ Matches(locs[k], path)}
      px == {k \in DOMAIN locs : ~locs[k].regex /\ Matches(locs[k], path)}
      len(k) == Len(CHOOSE a \in locs[k].pats : TRUE)
  IN IF rx # {} THEN CHOOSE k \in rx : \A j \in rx : k <= j
     ELSE IF px # {} THEN CHOOSE k \in px : \A j \in px : len(k) >= len(j)
     ELSE 0

Route(conf, path) ==
  LET locs == Locations(conf)
      k == Select(locs, path)
  IN IF k = 0 THEN [NoReq EXCEPT !.path = path]
     ELSE [path |-> path, loc |-> k, pass |-> locs[k].pass, try |-> locs[k].try]

\* A client sends the first request to a running nginx, which dispatches it
\* by the configuration it loaded when it started.
Request(p, path) ==
  /\ proc[p].cmd = NginxCmd /\ proc[p].sig = "none"
  /\ proc[p].served = NoReq
  /\ proc' = [proc EXCEPT ![p].served = Route(proc[p].conf, path)]
  /\ UNCHANGED <<pidf, disk, th, lastPid, used>>

\* ------------------------------------------------------------------ status
\* A status that only looks whether the PID file is there.
ReportFileOnly(f) == IF pidf[f] # Absent THEN "Running" ELSE "NotRunning"

\* if [ -f pid_file ]; PID=$(cat pid_file); if ps -p $PID ... 运行中 else 未运行
Report(f) ==
  IF pidf[f] # Absent /\ is_process_running(pidf[f]) THEN "Running" ELSE "NotRunning"

StatusEvent(t, f, res) == Event("status", f, res, 0, TRUE, ~t.touched)

\* A status that removes the PID file it finds stale.
StatusServerReaps(i) ==
  /\ th[i].pc = "st_server"
  /\ th' = [th EXCEPT ![i] =
       RetTo(@, StatusEvent(@, ServerFile, Report(ServerFile)), "st_glob")]
  /\ pidf' = IF Report(ServerFile) = "NotRunning"
             THEN [pidf EXCEPT ![ServerFile] = Absent] ELSE pidf
  /\ UNCHANGED <<proc, disk, lastPid, used>>

StatusServer(i) ==
  /\ th[i].pc = "st_server"
  /\ th' = [th EXCEPT ![i] =
       RetTo(@, StatusEvent(@, ServerFile, Report(ServerFile)), "st_glob")]
  /\ UNCHANGED <<proc, pidf, disk, lastPid, used>>

StatusGlob(i) ==
  /\ th[i].pc = "st_glob"
  /\ th' = [th EXCEPT ![i] = GlobLoop(@, WorkerGlob, "st_worker", "st_web")]
  /\ UNCHANGED <<proc, pidf, disk, lastPid, used>>

\* if [ -f "$pid_file" ]; then PID=$(cat "$pid_file"); if ps -p $PID ...
StatusWorker(i) ==
  LET f == Head(th[i].glob)
      t == IF pidf[f] # Absent
           THEN RetTo(th[i], StatusEvent(th[i], f, Report(f)), "st_worker")
           ELSE th[i]
  IN
  /\ th[i].pc = "st_worker"
  /\ th' = [th EXCEPT ![i] = GlobLoop(t, Tail(th[i].glob), "st_worker", "st_web")]
  /\ UNCHANGED <<proc, pidf, disk, lastPid, used>>

\* web_frontend.pid if it is there, else nginx.pid if it is there
StatusWeb(i) ==
  LET res == IF pidf[WebFile] # Absent THEN Report(WebFile)
             ELSE IF pidf[NginxFile] # Absent THEN Report(NginxFile)
             ELSE "NotRunning"
  IN
  /\ th[i].pc = "st_web"
  /\ th' = [th EXCEPT ![i] = Ret(@, StatusEvent(@, WebFile, res))]
  /\ UNCHANGED <<proc, pidf, disk, lastPid, used>>

\* -------------------------------------------------------------- force-stop
\* grep: a line matches when the pattern occurs in it.  The command lines are
\* kept as words; these are the words in which "nginx" and "ragflow.conf" occur.
Contains(word, pat) ==
  \/ word = pat
  \/ pat = "nginx" /\ word \in {NGINX_CONF, RAGFLOW_CONF, "pid pids/nginx.pid;"}
  \/ pat = "ragflow.conf" /\ word = RAGFLOW_CONF

\* ps -ef | grep "$pat" | grep -v grep | awk '{print $2}'
Grep(pat) ==
  {p \in Pids : \E k \in DOMAIN proc[p].cmd : Contains(proc[p].cmd[k], pat)}

\* ps -ef | grep "nginx.*ragflow.conf" | grep -v grep | awk '{print $2}'
GrepNginx ==
  {p \in Pids : \E j, k \in DOMAIN proc[p].cmd :
     /\ j <= k
     /\ Contains(proc[p].cmd[j], "nginx")
     /\ Contains(proc[p].cmd[k], "ragflow.conf")}

RECURSIVE SendAll(_, _, _)
SendAll(table, pids, sig) ==
  IF pids = {} THEN table
  ELSE LET p == CHOOSE q \in pids : \A r \in pids : q <= r IN
       SendAll(Signal(table, p, sig), pids \ {p}, sig)

RECURSIVE SentAll(_, _, _)
SentAll(t, pids, sig) ==
  IF pids = {} THEN t
  ELSE LET p == CHOOSE q \in pids : \A r \in pids : q <= r IN
       SentAll(Sent(t, p, sig), pids \ {p}, sig)

\* for pid in $PIDS; do kill -9 $pid 2>/dev/null || true; done
ForceKill(i, pids, nextPc) ==
  /\ proc' = SendAll(proc, pids, "KILL")
  /\ th' = [th EXCEPT ![i] = [SentAll(@, pids, "KILL") EXCEPT !.pc = nextPc]]

ForceStopServer(i) ==
  /\ th[i].pc = "fs_server"
  /\ ForceKill(i, Grep(RAGFLOW_SERVER), "fs_workers")
  /\ UNCHANGED <<pidf, disk, lastPid, used>>

ForceStopWorkers(i) ==
  /\ th[i].pc = "fs_workers"
  /\ ForceKill(i, Grep(TASK_EXECUTOR), "fs_nginx")
  /\ UNCHANGED <<pidf, disk, lastPid, used>>

\* if [ -f nginx.pid ]; then NGINX_PID=$(cat nginx.pid); if ps -p $NGINX_PID ...
\* else (no nginx.pid) kill -9 what the pattern finds
ForceStopNginx(i) ==
  /\ th[i].pc = "fs_nginx"
  /\ IF pidf[NginxFile] = Absent
     THEN /\ ForceKill(i, GrepNginx, "fs_clean")
          /\ pidf' = pidf
     ELSE IF is_process_running(pidf[NginxFile])
     THEN /\ th' = [th EXCEPT ![i].pid = pidf[NginxFile], ![i].pc = "fs_quit"]
          /\ UNCHANGED <<proc, pidf>>
     ELSE /\ th' = [th EXCEPT ![i].pc = "fs_clean"]
          /\ pidf' = [pidf EXCEPT ![NginxFile] = Absent]
          /\ proc' = proc
  /\ UNCHANGED <<disk, lastPid, used>>

\* nginx -s quit -c nginx.conf 2>/dev/null || kill $NGINX_PID 2>/dev/null || true
\* nginx -s quit reads the configuration, then the pid file it names, and
\* sends SIGQUIT to the pid in it.
ForceStopQuit(i) ==
  LET byNginx == SyntaxOK(disk) /\ pidf[NginxFile] # Absent
                   /\ is_process_running(pidf[NginxFile])
      pid == IF byNginx THEN pidf[NginxFile] ELSE th[i].pid
      sig == IF byNginx THEN "QUIT" ELSE "TERM"
  IN
  /\ th[i].pc = "fs_quit"
  /\ proc' = Signal(proc, pid, sig)
  /\ th' = [th EXCEPT ![i] = [Sent(@, pid, sig) EXCEPT !.pc = "fs_kill9"]]
  /\ UNCHANGED <<pidf, disk, lastPid, used>>

\* sleep 1; if ps -p $NGINX_PID; then kill -9 $NGINX_PID; fi; rm -f nginx.pid
ForceStopKill9(i) ==
  /\ th[i].pc = "fs_kill9"
  /\ ForceKill(i, {p \in {th[i].pid} : is_process_running(p)}, "fs_clean")
  /\ pidf' = [pidf EXCEPT ![NginxFile] = Absent]
  /\ UNCHANGED <<disk, lastPid, used>>

\* A force-stop that leaves ragflow_server.pid and the worker files behind.
ForceStopCleanWebOnly(i) ==
  /\ th[i].pc = "fs_clean"
  /\ pidf' = [pidf EXCEPT ![WebFile] = Absent, ![NginxFile] = Absent]
  /\ th' = [th EXCEPT ![i] =
       Ret(@, Event("force_stop_all", "", "Done", 0, TRUE, ~th[i].touched))]
  /\ UNCHANGED <<proc, disk, lastPid, used>>

\* rm -f ragflow_server.pid worker_*.pid web_frontend.pid nginx.pid
ForceStopClean(i) ==
  /\ th[i].pc = "fs_clean"
  /\ pidf' = [f \in Files |-> Absent]
  /\ th' = [th EXCEPT ![i] =
       Ret(@, Event("force_stop_all", "", "Done", 0, TRUE, ~th[i].touched))]
  /\ UNCHANGED <<proc, disk, lastPid, used>>

\* ---------------------------------------------------------- environment
Touched == [j \in Invs |-> [th[j] EXCEPT !.touched = TRUE]]

\* A process ends: by itself, or because of a signal it was sent.  nginx
\* removes its pid file when it shuts down on a signal.
ProcExit(p) ==
  /\ Budget
  /\ proc[p].cmd # <<>>
  /\ proc' = [proc EXCEPT ![p] = NoProc]
  /\ pidf' = IF proc[p].cmd = NginxCmd /\ proc[p].sig # "none"
             THEN [pidf EXCEPT ![NginxFile] = Absent] ELSE pidf
  /\ th' = Touched
  /\ used' = used + 1
  /\ UNCHANGED <<disk, lastPid>>

\* The OS gives a free pid to a process that is none of ours.
OtherSpawn(p) ==
  /\ Budget
  /\ proc[p].cmd = <<>>
  /\ proc' = [proc EXCEPT ![p] = [NoProc EXCEPT !.cmd = OtherCmd]]
  /\ th' = Touched
  /\ used' = used + 1
  /\ UNCHANGED <<pidf, disk, lastPid>>

\* Every file of pids/ is deleted out of band.
PidDirWiped ==
  /\ Budget
  /\ \E f \in Files : pidf[f] # Absent
  /\ pidf' = [f \in Files |-> Absent]
  /\ th' = Touched
  /\ used' = used + 1
  /\ UNCHANGED <<proc, disk, lastPid>>

\* A PID file comes to hold no pid: it is truncated or written out of band
\* (a full disk, an editor, a copy of an empty nginx.pid).
PidFileBlanked(f, c) ==
  /\ Budget
  /\ pidf[f] # c
  /\ pidf' = [pidf EXCEPT ![f] = c]
  /\ th' = Touched
  /\ used' = used + 1
  /\ UNCHANGED <<proc, disk, lastPid>>

Environment ==
  \/ \E p \in Pids : ProcExit(p)
  \/ \E p \in Pids : OtherSpawn(p)
  \/ PidDirWiped

\* ------------------------------------------------------- specification
Init ==
  /\ proc = [p \in Pids |-> NoProc]
  /\ pidf = [f \in Files |-> Absent]
  /\ disk = NoDisk
  /\ th = [i \in Invs |-> IdleThread]
  /\ lastPid = 0
  /\ used = 0

StartStep(i) ==
  \/ StartServerCheck(i) \/ StartServerLaunch(i) \/ StartServerRecord(i)
  \/ StartWorkerCheck(i) \/ StartWorkerLaunch(i) \/ StartWorkerRecord(i)
  \/ StartWorkersLoop(i) \/ StartWorkersSleep(i)

StopStep(i) ==
  \/ StopServerCheck(i) \/ StopServerKill(i) \/ StopServerRemove(i)
  \/ StopServerStale(i)
  \/ StopWorkerCheck(i) \/ StopWorkerKill(i) \/ StopWorkerRemove(i)
  \/ StopWorkerStale(i)
  \/ StopWorkersGlob(i) \/ StopWorkersTest(i) \/ StopWorkersNext(i)

WebStep(i) ==
  \/ StopWebCheck(i) \/ StopWebKill(i) \/ StopWebRemove(i) \/ StopWebStale(i)
  \/ StartWebCheck(i) \/ StartWebPre(i) \/ StartWebGenConf(i) \/ StartWebTest(i)
  \/ StartWebLaunch(i) \/ StartWebRecord(i)

StatusStep(i) ==
  \/ StatusServer(i) \/ StatusGlob(i) \/ StatusWorker(i) \/ StatusWeb(i)

ForceStep(i) ==
  \/ ForceStopServer(i) \/ ForceStopWorkers(i) \/ ForceStopNginx(i)
  \/ ForceStopQuit(i) \/ ForceStopKill9(i) \/ ForceStopClean(i)

\* One operator, the commands for single services.
Next ==
  \/ Begin(1)
  \/ StartStep(1) \/ StopStep(1) \/ WebStep(1) \/ StatusStep(1) \/ ForceStep(1)
  \/ Environment

Spec == Init /\ [][Next]_vars

\* One operator, the commands for the server and the workers together;
\* processes may exit.
NextBulk ==
  \/ BeginBulk(1)
  \/ StartStep(1) \/ StopStep(1) \/ StatusStep(1)
  \/ Settle(1) \/ Usage(1)
  \/ \E p \in Pids : ProcExit(p)

SpecBulk == Init /\ [][NextBulk]_vars

\* One operator, the server and the web front end with the server port unset
\* or set; processes may exit.
NextWeb ==
  \/ BeginWeb(1)
  \/ StartServerCheck(1) \/ StartServerLaunch(1) \/ StartServerRecord(1)
  \/ WebStep(1)
  \/ \E p \in Pids : ProcExit(p)

SpecWeb == Init /\ [][NextWeb]_vars

\* Two operators starting services at the same time; processes may exit.
NextConc ==
  \/ \E i \in Invs : BeginConc(i) \/ StartStep(i)
  \/ \E p \in Pids : ProcExit(p)

SpecConc == Init /\ [][NextConc]_vars

\* Two operators starting and stopping the server at the same time;
\* processes may exit.
BeginRace(i) ==
  \E cmd \in {"start-ragflow-server", "stop-ragflow-server"} : Invoke(i, cmd, -1, "", 0)

NextRace ==
  \/ \E i \in Invs :
       \/ BeginRace(i)
       \/ StartServerCheck(i) \/ StartServerLaunch(i) \/ StartServerRecord(i)
       \/ StopServerCheck(i) \/ StopServerKill(i) \/ StopServerRemove(i)
       \/ StopServerStale(i)
  \/ \E p \in Pids : ProcExit(p)

SpecRace == Init /\ [][NextRace]_vars

\* One operator who starts the server and the workers, starts the web front
\* end, and stops or restarts everything by force; processes may exit.
ForceCommands == {"start", "start-web", "force-stop", "force-restart"}

BeginForce(i) ==
  /\ \A j \in Invs : th[j].pc \in {"idle", "done"}
  /\ \E cmd \in ForceCommands : \E w \in WorkerCountsFor(cmd) : Invoke(i, cmd, w, "", 0)

NextForce ==
  \/ BeginForce(1)
  \/ StartStep(1) \/ ForceStep(1) \/ Settle(1)
  \/ StartWebCheck(1) \/ StartWebPre(1) \/ StartWebGenConf(1)
  \/ StartWebTest(1) \/ StartWebLaunch(1) \/ StartWebRecord(1)
  \/ \E p \in Pids : ProcExit(p)

SpecForce == Init /\ [][NextForce]_vars

\* One operator who starts and stops the server and the workers, with
\* WORKER_COUNT unset or set at the starts and at the stops alike; processes
\* may exit.
BeginStop(i) ==
  /\ \A j \in Invs : th[j].pc \in {"idle", "done"}
  /\ \E cmd \in {"start", "stop", "stop-workers"} :
       \E w \in WorkerCountsFor("start") : Invoke(i, cmd, w, "", 0)

NextStop ==
  \/ BeginStop(1)
  \/ StartStep(1) \/ StopStep(1)
  \/ \E p \in Pids : ProcExit(p)

SpecStop == Init /\ [][NextStop]_vars

\* One operator who runs the commands for the server and the workers, singly
\* and together, with WORKER_COUNT unset, and starts and stops the web front
\* end; processes may exit.
FrameCommands ==
  {"start", "stop", "restart", "start-workers", "stop-workers",
   "start-ragflow-server", "stop-ragflow-server"}

BeginFrame(i) ==
  /\ \A j \in Invs : th[j].pc \in {"idle", "done"}
  /\ \E cmd \in FrameCommands \cup {"start-web", "stop-web"} : Invoke(i, cmd, -1, "", 0)

NextFrame ==
  \/ BeginFrame(1)
  \/ StartStep(1) \/ StopStep(1) \/ WebStep(1) \/ Settle(1)
  \/ \E p \in Pids : ProcExit(p)

SpecFrame == Init /\ [][NextFrame]_vars

\* The values WEB_PORT may be given: unset, 80, 0, 65536, "8x" and a number
\* of twenty digits.
WebPorts ==
  {<<>>, <<"8", "0">>, <<"0">>, <<"6", "5", "5", "3", "6">>, <<"8", "x">>,
   [k \in 1..20 |-> "9"]}

\* One invocation at a time of start-web, with WEB_PORT unset or set, or of
\* stop-web.
BeginPort(i) ==
  /\ \A j \in Invs : th[j].pc \in {"idle", "done"}
  /\ th[i].pc \in {"idle", "done"}
  /\ Budget
  /\ used' = used + 1
  /\ \E cmd \in {"start-web", "stop-web"} :
       \E wp \in IF cmd = "start-web" THEN WebPorts ELSE {<<>>} :
         th' = [th EXCEPT ![i] =
           [IdleThread EXCEPT !.cmd = cmd, !.pc = Head(Program(cmd)),
                              !.todo = Tail(Program(cmd)),
                              !.wc = WORKER_COUNT(-1),
                              !.host = SERVER_HOST(""),
                              !.prev = IF th[i].out = <<>> THEN NoEvent
                                       ELSE th[i].out[Len(th[i].out)],
                              !.touched = th[i].touched,
                              !.raced = th[i].raced,
                              !.nofiles = \A f \in Files : pidf[f] = Absent,
                              !.disk0 = disk,
                              !.wport = wp,
                              !.pidf0 = pidf]]
  /\ UNCHANGED <<proc, pidf, disk, lastPid>>

\* One operator, the web front end with WEB_PORT unset or set; processes
\* may exit.
NextPort ==
  \/ BeginPort(1)
  \/ WebStep(1)
  \/ \E p \in Pids : ProcExit(p)

SpecPort == Init /\ [][NextPort]_vars

\* One invocation at a time of a start or a stop of the server or the web
\* front end, or of status.
BlankCommands ==
  {"start-ragflow-server", "stop-ragflow-server", "start-web", "stop-web",
   "status"}
BeginBlank(i) ==
  /\ \A j \in Invs : th[j].pc \in {"idle", "done"}
  /\ \E cmd \in BlankCommands : Invoke(i, cmd, -1, "", 0)

\* One operator, the server and the web front end; ragflow_server.pid and
\* web_frontend.pid may lose their pid and processes may exit.  No worker
\* PID file is ever there, so status has no worker to report.
NextBlank ==
  \/ BeginBlank(1)
  \/ StartServerCheck(1) \/ StartServerLaunch(1) \/ StartServerRecord(1)
  \/ StopServerCheck(1) \/ StopServerKill(1) \/ StopServerRemove(1)
  \/ StopServerStale(1)
  \/ WebStep(1)
  \/ StatusServer(1) \/ StatusGlob(1) \/ StatusWeb(1)
  \/ \E f \in {ServerFile, WebFile} : \E c \in BadContents : PidFileBlanked(f, c)
  \/ \E p \in Pids : ProcExit(p)

SpecBlank == Init /\ [][NextBlank]_vars

\* The commands for the server and the workers together, and start-web.
LiveCommands ==
  {"start", "stop", "restart", "force-stop", "force-restart", "status", "start-web"}

\* The launches a command may make: one for each service it starts that is
\* not running (restart has stopped them all before it starts them;
\* force-restart has killed them all).
Needs(cmd, w) ==
  LET targets == {ServerFile} \cup {WorkerFile(k) : k \in 0..(WORKER_COUNT(w) - 1)} IN
  IF cmd = "start"
  THEN Cardinality({f \in targets : ~(pidf[f] # Absent /\ is_process_running(pidf[f]))})
  ELSE IF cmd = "restart" THEN Cardinality(targets)
  ELSE IF cmd = "start-web" THEN 1
  ELSE 0

\* One invocation at a time, WORKER_COUNT being unset or 1; the process
\* table of the model has MaxPid places, and a command is typed when the
\* launches it may make will each find a free one.
BeginLive(i) ==
  /\ \A j \in Invs : th[j].pc \in {"idle", "done"}
  /\ \E cmd \in LiveCommands : \E w \in WorkerCountsFor(cmd) \cap {-1, 1} :
       /\ Needs(cmd, w) <= Cardinality({p \in Pids : proc[p].cmd = <<>>})
       /\ Invoke(i, cmd, w, "", 0)

\* The steps of the script: the shell goes from one command to the next, and
\* sleep returns.
ScriptStep(i) ==
  \/ StartStep(i) \/ StopStep(i) \/ StatusStep(i) \/ ForceStep(i) \/ Settle(i)
  \/ StartWebCheck(i) \/ StartWebPre(i) \/ StartWebGenConf(i)
  \/ StartWebTest(i) \/ StartWebLaunch(i) \/ StartWebRecord(i)

NextLive ==
  \/ BeginLive(1)
  \/ ScriptStep(1)
  \/ \E p \in Pids : ProcExit(p)

\* A script that has a next step takes it; nothing says that a process ever
\* exits or that another command is typed.
SpecLive == Init /\ [][NextLive]_vars /\ WF_vars(ScriptStep(1))

\* ------------------------------------------- fix-tailwindcss-plugin.js
\* The text of the plugin file is a sequence of pieces.  No piece is part of
\* another and no text the script looks for lies across two pieces other
\* than as the pieces below spell it, so a text occurs in the file exactly
\* when its pieces occur in the sequence.
TIMEOUT == "CHECK_TIMEOUT_UNIT_SECOND = "
QUOTE == "\""
WATCH == "--watch"
ALWAYS == "=always"
DIR_DEF == "const generatedDir = (0, import_path.dirname)(generatedPath);"
SPACE == " "
BIN_PATH == "const binPath"
DIR_CHECK ==
  "if (!(0, import_fs.existsSync)(generatedDir)) {\n      require(\"fs\").mkdirSync(generatedDir, { recursive: true });\n    }\n    "
FILLER == "x"

TimeoutIs5 == <<TIMEOUT, "5">>
TimeoutIs60 == <<TIMEOUT, "6", "0">>
WatchArg == <<QUOTE, WATCH, QUOTE>>
WatchAlwaysArg == <<QUOTE, WATCH, ALWAYS, QUOTE>>

\* content.includes(text)
MatchAt(s, pat, k) ==
  k + Len(pat) - 1 <= Len(s) /\ SubSeq(s, k, k + Len(pat) - 1) = pat
includes(s, pat) == \E k \in 1..Len(s) : MatchAt(s, pat, k)

\* content.replace(/text/g, by): the matches are taken from the left, each
\* search starting where the last match ended.
RECURSIVE ReplaceFrom(_, _, _, _)
ReplaceFrom(s, pat, by, k) ==
  IF k > Len(s) THEN <<>>
  ELSE IF MatchAt(s, pat, k) THEN by \o ReplaceFrom(s, pat, by, k + Len(pat))
  ELSE <<s[k]>> \o ReplaceFrom(s, pat, by, k + 1)
replaceAll(s, pat, by) == ReplaceFrom(s, pat, by, 1)

\* /const generatedDir = .*dirname.*generatedPath.*;\s*if \(!.*existsSync.*generatedDir.*\)/s
\* the definition of generatedDir, then white space only, then the existsSync test
WhiteBetween(s, j, k) == \A n \in (j + 1)..(k - 1) : s[n] = SPACE
generatedDirCheck(s) ==
  \E j \in 1..Len(s) : \E k \in (j + 1)..Len(s) :
    s[j] = DIR_DEF /\ s[k] = DIR_CHECK /\ WhiteBetween(s, j, k)

\* /(const generatedDir = \(0, import_path\.dirname\)\(generatedPath\);\s*)(const binPath)/s
\* matches at the definition in place j when white space only, up to place k,
\* lies between it and "const binPath"
DirPatternAt(s, j, k) ==
  j < k /\ s[j] = DIR_DEF /\ s[k] = BIN_PATH /\ WhiteBetween(s, j, k)
dirPattern(s) == \E j, k \in 1..Len(s) : DirPatternAt(s, j, k)

\* content.replace(dirPattern, `$1if (...) {...}\n    $2`): the first match only
InsertCheck(s) ==
  LET j == CHOOSE a \in 1..Len(s) :
             /\ \E k \in 1..Len(s) : DirPatternAt(s, a, k)
             /\ \A b \in 1..(a - 1) : ~\E k \in 1..Len(s) : DirPatternAt(s, b, k)
      k == CHOOSE b \in 1..Len(s) : DirPatternAt(s, j, b)
  IN SubSeq(s, 1, k - 1) \o <<DIR_CHECK>> \o SubSeq(s, k, Len(s))

\* A fix carries the content and the fixes applied so far (modified: some fix).
\* 修复 1: if includes('CHECK_TIMEOUT_UNIT_SECOND = 5') replace every one
Fix1(r) ==
  IF includes(r.content, TimeoutIs5)
  THEN [content |-> replaceAll(r.content, TimeoutIs5, TimeoutIs60), fixes |-> r.fixes \cup {1}]
  ELSE r

\* 修复 2: if the existsSync test is not there and the place for it is, insert it
Fix2(r) ==
  IF ~generatedDirCheck(r.content) /\ dirPattern(r.content)
  THEN [content |-> InsertCheck(r.content), fixes |-> r.fixes \cup {2}]
  ELSE r

\* A third fix that replaces "--watch" whatever else the file holds.
Fix3Unguarded(r) ==
  IF includes(r.content, WatchArg)
  THEN [content |-> replaceAll(r.content, WatchArg, WatchAlwaysArg), fixes |-> r.fixes \cup {3}]
  ELSE r

\* 修复 3: if includes('"--watch"') && !includes('"--watch=always"') replace every one
Fix3(r) ==
  IF includes(r.content, WatchArg) /\ ~includes(r.content, WatchAlwaysArg)
  THEN [content |-> replaceAll(r.content, WatchArg, WatchAlwaysArg), fixes |-> r.fixes \cup {3}]
  ELSE r

\* The content and the fixes of one run over the content read.
fixTailwindcssPlugin(content) == Fix3(Fix2(Fix1([content |-> content, fixes |-> {}])))

PatchCmd == "node scripts/fix-tailwindcss-plugin.js"

\* What the run does to the thread and the file, given what it computed, the
\* file operations it made, the operation that threw ("": none), its exit
\* status and the file it left.
Ran(i, r, io, threw, rc, file) ==
  /\ th' = [th EXCEPT ![i] =
       [IdleThread EXCEPT !.cmd = PatchCmd, !.pc = "done", !.rc = rc,
                          !.k = IF th[i].cmd = PatchCmd THEN th[i].k + 1 ELSE 1,
                          !.before = disk.plugin, !.fixes = r.fixes,
                          !.fixes0 = th[i].fixes, !.io = io, !.threw = threw]]
  /\ disk' = [disk EXCEPT !.plugin = file]

\* A script that writes the file whether or not a fix was applied.
NodeRunWritesAlways(i) ==
  LET file == disk.plugin
      r == fixTailwindcssPlugin(file.text)
  IN
  /\ th[i].pc \in {"idle", "done"}
  /\ Budget
  /\ used' = used + 1
  /\ IF ~file.exists
     THEN Ran(i, [content |-> <<>>, fixes |-> {}], <<>>, "", 0, file)
     ELSE Ran(i, r, <<"read", "write">>, "", 0, [file EXCEPT !.text = r.content])
  /\ UNCHANGED <<proc, pidf, lastPid>>

\* try { fixTailwindcssPlugin() } catch (error) { ...; process.exit(1) }
\* existsSync, readFileSync, the three fixes, writeFileSync if modified.
\* readFileSync may throw; writeFileSync may throw before it opened the
\* file, or after it opened and emptied it.
NodeRun(i) ==
  LET file == disk.plugin
      r == fixTailwindcssPlugin(file.text)
      none == [content |-> file.text, fixes |-> {}]
  IN
  /\ th[i].pc \in {"idle", "done"}
  /\ Budget
  /\ IF ~file.exists
     THEN /\ Ran(i, none, <<>>, "", 0, file)
          /\ used' = used + 1
     ELSE \E fault \in {"none"} \cup {x \in {"read"} : used + 1 < MaxStimuli}
                     \cup {x \in {"open", "write"} : r.fixes # {} /\ used + 1 < MaxStimuli} :
            /\ used' = IF fault = "none" THEN used + 1 ELSE used + 2
            /\ CASE fault = "read" -> Ran(i, none, <<"read">>, "read", 1, file)
                 [] fault = "open" -> Ran(i, r, <<"read", "write">>, "write", 1, file)
                 [] fault = "write" ->
                      Ran(i, r, <<"read", "write">>, "write", 1, [file EXCEPT !.text = <<>>])
                 [] OTHER ->
                      IF r.fixes # {}
                      THEN Ran(i, r, <<"read", "write">>, "", 0, [file EXCEPT !.text = r.content])
                      ELSE Ran(i, r, <<"read">>, "", 0, file)
  /\ UNCHANGED <<proc, pidf, lastPid>>

\* The pieces a plugin file is made of, and texts of the kind the fixes look for.
Pieces ==
  {TIMEOUT, "5", "0", QUOTE, WATCH, ALWAYS, DIR_DEF, SPACE, BIN_PATH, FILLER}
Fragments ==
  {<<>>, <<TIMEOUT, "5">>, <<TIMEOUT, "5", "0">>, <<TIMEOUT, "6", "0">>,
   <<DIR_DEF, BIN_PATH>>, <<DIR_DEF, SPACE, BIN_PATH>>,
   <<DIR_DEF, DIR_CHECK, BIN_PATH>>, WatchArg, WatchAlwaysArg,
   <<WATCH, QUOTE>>, <<QUOTE>>, <<FILLER>>}

RECURSIVE Join(_)
Join(fs) == IF fs = <<>> THEN <<>> ELSE Head(fs) \o Join(Tail(fs))

\* Every text of at most MaxContentLen pieces, and every text of
\* MaxContentLen fragments.
Contents ==
  UNION {[1..n -> Pieces] : n \in 0..MaxContentLen}
  \cup {Join(fs) : fs \in [1..MaxContentLen -> Fragments]}

\* The plugin file is missing, or npm install has unpacked it.
InitPatch ==
  /\ proc = [p \in Pids |-> NoProc]
  /\ pidf = [f \in Files |-> Absent]
  /\ disk \in {NoDisk} \cup {[NoDisk EXCEPT !.plugin = [exists |-> TRUE, text |-> c]] : c \in Contents}
  /\ th = [i \in Invs |-> IdleThread]
  /\ lastPid = 0
  /\ used = 0

NextPatch == NodeRun(1)

SpecPatch == InitPatch /\ [][NextPatch]_vars

\* The web front end is started once, with SERVER_PORT_FOR_WEB unset or
\* set, and the nginx it launched serves a request.
BeginRoute(i) ==
  /\ \A j \in Invs : th[j].pc = "idle"
  /\ \E q \in PortsFor("start-web") : Invoke(i, "start-web", -1, "", q)

NextRoute ==
  \/ BeginRoute(1)
  \/ StartWebCheck(1) \/ StartWebPre(1) \/ StartWebGenConf(1)
  \/ StartWebTest(1) \/ StartWebLaunch(1) \/ StartWebRecord(1)
  \/ \E p \in Pids : \E path \in Paths : Request(p, path)

SpecRoute == Init /\ [][NextRoute]_vars


\* ------------------------------------------------------------- properties
Op == th[1]
Last(s) == s[Len(s)]
StartFns == {"start_ragflow_server", "start_worker", "start_web"}
ServiceFiles == Files \ {NginxFile}
CmdOf(f) ==
  IF f = ServerFile THEN ServerCmd
  ELSE IF f = WebFile THEN NginxCmd
  ELSE WorkerCmd(CHOOSE k \in WorkerIds : WorkerFile(k) = f)
OurCmds == {CmdOf(f) : f \in ServiceFiles}
Running(f) == pidf[f] # Absent /\ is_process_running(pidf[f])
Stale(f) == pidf[f] # Absent /\ ~is_process_running(pidf[f])
\* Nothing happened in the environment from the return before this
\* invocation to the last return of it.
QuietRun == \A k \in DOMAIN Op.out : Op.out[k].quiet

\* The second of two starts of the same service, one right after the other,
\* has just returned, and nothing happened in the environment during the
\* two or between them.
SecondStart ==
  /\ Len(Op.out) = 1 /\ ~Op.touched
  /\ Op.out[1].fn \in StartFns /\ Op.out[1].quiet /\ Op.prev.quiet
  /\ Op.prev.fn = Op.out[1].fn /\ Op.prev.f = Op.out[1].f

\* The first start launched a process of the service.
Launched(ev) == ev.res = "Started" /\ (ev.fn = "start_web" => ev.lok)

\* C1 as the spec states it, the first start taken to have reported that the
\* service started or was running: the second start of the same service
\* reports AlreadyRunning and there is exactly one live instance of it.
C1_SecondStartOneInstance ==
  SecondStart /\ Op.prev.res \in {"Started", "AlreadyRunning"} =>
    /\ Op.out[1].res = "AlreadyRunning"
    /\ Cardinality(Instances(CmdOf(Op.out[1].f))) = 1

\* C1, amended: when the first start launched a process or itself reported
\* AlreadyRunning, the second start of the same service launches nothing and
\* reports AlreadyRunning, and the PID file names a live process.  (How many
\* instances are alive is not settled by that: one stopped earlier may linger.)
C1_SecondStartAlreadyRunning ==
  SecondStart /\ (Op.prev.res = "AlreadyRunning" \/ Launched(Op.prev)) =>
    /\ Op.out[1].res = "AlreadyRunning"
    /\ Running(Op.out[1].f)

C1_Witness ==
  /\ SecondStart /\ Launched(Op.prev)
  /\ Op.out[1].res = "AlreadyRunning"
  /\ Cardinality(Instances(CmdOf(Op.out[1].f))) = 1

\* C2 as the spec states it: concurrent or repeated starts never give two
\* live instances of the same service.
C2_NeverTwoInstances ==
  \A f \in {ServerFile} \cup WorkerFiles : Cardinality(Instances(CmdOf(f))) <= 1

\* C2, amended: two live instances of a service come from starts only when
\* one invocation made its liveness check while another was between its own
\* check and its write of the PID file; starts that do not overlap so never
\* give two.
C2_TwoInstancesOnlyByRace ==
  \A f \in {ServerFile} \cup WorkerFiles :
    Cardinality(Instances(CmdOf(f))) >= 2 => \E i \in Invs : f \in th[i].raced

C2_Witness ==
  /\ Cardinality(Instances(ServerCmd)) = 2
  /\ \E i \in Invs : ServerFile \in th[i].raced
  /\ \A i \in Invs : th[i].cmd = "start-ragflow-server" /\ th[i].pc = "done"
                       /\ Last(th[i].out).res = "Started"

\* A status that came right after a stop that reported Stopped has ended.
StatusAfterStop ==
  Op.cmd = "status" /\ Op.pc = "done" /\ Op.prev.res = "Stopped"

\* C3 as the spec states it: a status right after a stop of a service
\* reports that service as not running.
C3_StatusAfterStopNotRunning ==
  StatusAfterStop /\ QuietRun =>
    \A k \in DOMAIN Op.out : Op.out[k].f = Op.prev.f => Op.out[k].res = "NotRunning"

\* C3, amended: a status after a stop never reports the server or a worker
\* as running; it reports the web front end as running only while nginx.pid
\* still names a live process (the nginx that was signalled has not exited).
C3_StatusAfterStopAmended ==
  StatusAfterStop =>
    \A k \in DOMAIN Op.out :
      Op.out[k].f = Op.prev.f /\ Op.out[k].res = "Running" =>
        Op.prev.f = WebFile /\ (Op.touched \/ Running(NginxFile))

C3_Witness ==
  /\ StatusAfterStop /\ QuietRun /\ Op.prev.f = ServerFile
  /\ Op.out[1].res = "NotRunning"
  /\ \E p \in Pids : proc[p].cmd = ServerCmd /\ proc[p].sig = "TERM"

\* A status has ended and nothing happened in the environment from the
\* return before it until now.
StatusDone == Op.cmd = "status" /\ Op.pc = "done" /\ QuietRun /\ ~Op.touched

\* C4 as the spec states it: status removes the PID file of a service whose
\* recorded process is gone, so none is left when it has returned.
C4_StatusRemovesStaleFile ==
  StatusDone => \A f \in ServiceFiles : ~Stale(f)

\* C4, amended: status reports a service whose PID file names no live
\* process as not running, and leaves the PID file where it is.
C4_StatusReportsStaleNotRunning ==
  StatusDone =>
    \A f \in ServiceFiles : Stale(f) =>
      /\ \E k \in DOMAIN Op.out : Op.out[k].f = f
      /\ \A k \in DOMAIN Op.out : Op.out[k].f = f => Op.out[k].res = "NotRunning"

C4_Witness == StatusDone /\ Stale(ServerFile) /\ Op.prev.fn = "start_ragflow_server"

\* C5: status is a pure read: no step of it changes a PID file, a process
\* or a configuration file, and it sends no signal.
C5_StatusIsPureRead ==
  [][Op.cmd = "status" /\ Op.pc \notin {"idle", "done"} /\ used' = used =>
       /\ pidf' = pidf /\ proc' = proc /\ disk' = disk
       /\ th'[1].sent = <<>>]_vars

C5_Witness ==
  /\ Op.cmd = "status" /\ Op.pc = "done"
  /\ \E f \in ServiceFiles : Running(f) /\ Op.out[1].quiet
  /\ \E f \in ServiceFiles : Stale(f)

\* C6: a force-stop that began with no file in the PID directory leaves no
\* process of the server, the workers or nginx alive, and no PID file.
C6_ForceStopWithoutPidFiles ==
  Op.cmd = "force-stop" /\ Op.pc = "done" /\ Op.nofiles =>
    /\ \A p \in Pids : proc[p].cmd \notin OurCmds
    /\ \A f \in Files : pidf[f] = Absent

\* C7: a start whose launch failed reports a failure, and leaves the PID
\* directory as it was (here: empty, when it was empty).
C7_LaunchFailureReported ==
  /\ \A k \in DOMAIN Op.out :
       Op.out[k].fn \in StartFns /\ ~Op.out[k].lok => Op.out[k].res # "Started"
  /\ Op.nofiles /\ Len(Op.out) = 1 /\ Op.out[1].fn \in StartFns /\ ~Op.out[1].lok =>
       pidf[Op.out[1].f] = Absent

\* C8: start-workers attempts every worker id from 0 to WORKER_COUNT - 1
\* once and in order, whatever the attempts before returned.
C8_EveryWorkerAttempted ==
  Op.cmd = "start-workers" /\ Op.pc = "done" =>
    /\ Len(Op.out) = Op.wc
    /\ \A k \in 1..Op.wc :
         Op.out[k].fn = "start_worker" /\ Op.out[k].f = WorkerFile(k - 1)

C8_Witness ==
  /\ Op.cmd = "start-workers" /\ Op.pc = "done" /\ Op.wc = 2
  /\ Op.out[1].rc = 1 /\ Op.out[2].res = "Started"

\* C9: start_web comes to launch nginx only from a syntax check that passed
\* on the configuration this invocation generated, nginx processes appear
\* only there, and a failed check ends the invocation with ConfigInvalid
\* and changes no process and no PID file.
C9_LaunchOnlyAfterSyntaxCheck ==
  [][/\ th'[1].pc = "web_launch" /\ Op.pc # "web_launch" =>
          /\ Op.pc = "web_test" /\ SyntaxOK(disk)
          /\ disk.ragflow = GeneratedConf(Op.host, Op.port)
     /\ ~(Instances(NginxCmd)' \subseteq Instances(NginxCmd)) => Op.pc = "web_launch"
     /\ Op.pc = "web_test" /\ ~SyntaxOK(disk) /\ used' = used =>
          /\ th'[1].pc = "done" /\ Last(th'[1].out).res = "ConfigInvalid"
          /\ proc' = proc /\ pidf' = pidf]_vars

C9_Witness ==
  /\ Op.cmd = "start-web" /\ Op.pc = "done"
  /\ Last(Op.out).res = "ConfigInvalid"
  /\ Instances(NginxCmd) = {} /\ pidf[WebFile] = Absent

\* C10: a start-web whose syntax check failed leaves the valid configuration
\* files that were there before it as they were.
C10_FailedCheckKeepsConfig ==
  /\ Op.cmd = "start-web" /\ Op.pc = "done"
  /\ Last(Op.out).res = "ConfigInvalid" /\ SyntaxOK(Op.disk0)
  => disk.ragflow = Op.disk0.ragflow /\ disk.main = Op.disk0.main


StopFns == {"stop_ragflow_server", "stop_worker", "stop_web"}
Settled(out) == \E j \in DOMAIN out : out[j].fn = "sleep"

\* C11 as the spec states it: restart reports Started for a service only
\* after it reported Stopped or NotRunning for that same service.
C11_StartedOnlyAfterStopOutcome ==
  Op.cmd = "restart" =>
    \A k \in DOMAIN Op.out : Op.out[k].res = "Started" =>
      \E j \in 1..(k - 1) :
        Op.out[j].f = Op.out[k].f /\ Op.out[j].res \in {"Stopped", "NotRunning"}

\* C11, amended: restart first reports the outcome of stopping the server,
\* every stop outcome comes before the settle delay and every start outcome
\* after it, and nothing is launched before the delay has elapsed.  (A worker
\* with no PID file gets no stop outcome at all before it is started.)
C11_RestartOrder ==
  Op.cmd = "restart" =>
    /\ Op.out # <<>> =>
         /\ Op.out[1].fn = "stop_ragflow_server"
         /\ Op.out[1].res \in {"Stopped", "NotRunning"}
    /\ \A j, k \in DOMAIN Op.out :
         Op.out[j].fn \in StopFns /\ Op.out[k].fn = "sleep" => j < k
    /\ \A k \in DOMAIN Op.out :
         Op.out[k].fn \in StartFns => Settled(SubSeq(Op.out, 1, k - 1))
    /\ Op.pc \in {"ss_launch", "ss_record", "sw_launch", "sw_record"} => Settled(Op.out)

C11_Witness ==
  /\ Op.cmd = "restart" /\ Op.pc = "done"
  /\ Op.out[1].res = "Stopped"
  /\ \E j, k \in DOMAIN Op.out :
       /\ j < k /\ Op.out[j].f = WorkerFile(0) /\ Op.out[j].res = "Stopped"
       /\ Op.out[k].f = WorkerFile(0) /\ Op.out[k].res = "Started"
  /\ \E k \in DOMAIN Op.out : Op.out[k].f = ServerFile /\ Op.out[k].res = "Started"

\* An instance of the server or of a worker was just launched by the
\* invocation: the service's PID file and the pid of the new instance.
JustLaunched ==
  IF Op.pc = "ss_record" THEN {<<ServerFile, Op.pid>>}
  ELSE IF Op.pc = "sw_record" THEN {<<WorkerFile(Op.k), Op.pid>>}
  ELSE {}

\* C12 as the spec states it: a new instance of a service is never launched
\* while an instance launched before is still alive.
C12_NoLaunchWhileAlive ==
  \A l \in JustLaunched : Instances(CmdOf(l[1])) \subseteq {l[2]}

\* C12, amended: a new instance of a service is never launched while the
\* service's PID file names a live instance of it.  (An instance whose PID
\* file a stop has removed may still be alive when the next one is launched.)
C12_NoLaunchWhileRecordedAlive ==
  \A l \in JustLaunched :
    \A p \in Instances(CmdOf(l[1])) \ {l[2]} : pidf[l[1]] # p

C12_Witness ==
  /\ Op.cmd = "restart" /\ Op.pc = "ss_record"
  /\ \E p \in Instances(ServerCmd) \ {Op.pid} : proc[p].sig = "TERM"

\* C15: a first argument that is none of the recognized commands (or no
\* argument) only prints the usage message and exits with status 1: no
\* process is launched or signalled and no PID file changes.
C15_UnrecognizedCommand ==
  [][Op.cmd \notin RecognizedCommands /\ Op.pc \notin {"idle", "done"} /\ used' = used =>
       /\ Op.pc = "usage"
       /\ th'[1].pc = "done" /\ th'[1].rc = 1
       /\ Len(th'[1].out) = 1 /\ th'[1].out[1].res = "Usage"
       /\ th'[1].sent = <<>>
       /\ proc' = proc /\ pidf' = pidf /\ disk' = disk /\ lastPid' = lastPid]_vars

C15_Witness ==
  /\ Op.cmd = "" /\ Op.pc = "done" /\ Op.rc = 1
  /\ Op.out[1].res = "Usage"
  /\ Running(ServerFile) /\ Running(WorkerFile(0))

SingleCommands ==
  {"start-ragflow-server", "stop-ragflow-server", "start-web", "stop-web"}

\* C16 as the spec states it: a recognized command whose outcomes are all
\* Started, Stopped, AlreadyRunning or NotRunning exits with status 0.
C16_NoErrorExitsZero ==
  /\ Op.pc = "done" /\ Op.cmd \in RecognizedCommands
  /\ \A k \in DOMAIN Op.out :
       Op.out[k].res \in {"Started", "Stopped", "AlreadyRunning", "NotRunning"}
  => Op.rc = 0

\* C16, amended: a command for one service exits with the status of its
\* function: 0 for Started and Stopped, 1 for AlreadyRunning, and 1 for a
\* stop that finds no PID file; start-workers exits 0 whatever its workers
\* reported.
C16_ExitStatusOfOutcome ==
  /\ Op.pc = "done" /\ Op.cmd \in SingleCommands =>
       LET res == Last(Op.out).res IN
       /\ res \in {"Started", "Stopped"} => Op.rc = 0
       /\ res = "AlreadyRunning" => Op.rc = 1
       /\ res = "NotRunning" /\ Op.nofiles => Op.rc = 1
  /\ Op.pc = "done" /\ Op.cmd = "start-workers" => Op.rc = 0

C16_Witness ==
  /\ Op.pc = "done" /\ Op.cmd = "start-ragflow-server"
  /\ Last(Op.out).res = "AlreadyRunning" /\ Op.rc = 1
  /\ Op.prev.fn = "stop_web" /\ Op.prev.res = "NotRunning" /\ Op.prev.rc = 1

\* C17: start attempts exactly the workers 0 .. WORKER_COUNT - 1, once each
\* and in ascending order, after the server; with WORKER_COUNT unset these
\* are workers 0 and 1, with WORKER_COUNT=0 there is none, and start exits 0.
C17_WorkerCount ==
  Op.cmd = "start" /\ Op.pc = "done" =>
    LET n == IF Op.given = -1 THEN 2 ELSE Op.given IN
    /\ Len(Op.out) = n + 1
    /\ Op.out[1].fn = "start_ragflow_server"
    /\ \A k \in 1..n :
         Op.out[k + 1].fn = "start_worker" /\ Op.out[k + 1].f = WorkerFile(k - 1)
    /\ Op.rc = 0

C17_Witness ==
  /\ Op.cmd = "start" /\ Op.pc = "done" /\ Op.given = -1
  /\ Len(Op.out) = 3
  /\ Op.out[2].f = WorkerFile(0) /\ Op.out[3].f = WorkerFile(1)
  /\ Op.out[3].res = "Started"

StoppedCount == Cardinality({k \in DOMAIN Op.out : Op.out[k].res = "Stopped"})

\* C20: a stop that finds a PID file naming a live process sends that
\* process one SIGTERM and nothing else, reports Stopped with status 0 and
\* removes the PID file, without waiting for the process to exit.
C20_StopClearsRecord ==
  Op.cmd \in {"stop-ragflow-server", "stop-workers", "stop-web"} /\ Op.pc = "done" =>
    /\ \A k \in DOMAIN Op.sent : Op.sent[k][2] = "TERM"
    /\ Len(Op.sent) <= StoppedCount
    /\ QuietRun => Len(Op.sent) = StoppedCount
    /\ \A k \in DOMAIN Op.out :
         Op.out[k].res = "Stopped" => Op.out[k].rc = 0 /\ pidf[Op.out[k].f] = Absent

C20_Witness ==
  /\ Op.cmd = "stop-workers" /\ Op.pc = "done"
  /\ Op.out # <<>> /\ Op.sent # <<>>
  /\ Op.out[1].res = "Stopped" /\ Op.out[1].f = WorkerFile(0)
  /\ pidf[WorkerFile(0)] = Absent
  /\ \E p \in Pids :
       /\ Op.sent[1] = <<p, "TERM">>
       /\ proc[p].cmd = WorkerCmd(0) /\ proc[p].sig = "TERM"


\* C14 as the spec states it: a start-web that finds the web front end
\* running leaves the configuration regenerated for this invocation on disk
\* and the running nginx on that configuration.
C14_ReloadWhenRunning ==
  /\ Op.cmd = "start-web" /\ Op.pc = "done"
  /\ Last(Op.out).res = "AlreadyRunning"
  => /\ disk.ragflow = GeneratedConf(Op.host, Op.port)
     /\ \A p \in Instances(NginxCmd) : pidf[WebFile] = p => proc[p].conf = disk.ragflow

\* C14, amended: a start-web that finds web_frontend.pid naming a live
\* process reports AlreadyRunning with status 1 and does nothing else: the
\* configuration is not written, no process is signalled or launched, and the
\* running nginx stays on the configuration it loaded.
C14_AlreadyRunningChangesNothing ==
  [][Op.pc = "web_check" /\ Running(WebFile) /\ used' = used =>
       /\ th'[1].pc = "done" /\ th'[1].rc = 1
       /\ Last(th'[1].out).res = "AlreadyRunning"
       /\ th'[1].sent = <<>>
       /\ proc' = proc /\ pidf' = pidf /\ disk' = disk /\ lastPid' = lastPid]_vars

C14_Witness ==
  /\ Op.cmd = "start-web" /\ Op.pc = "done" /\ Op.host # "bad host"
  /\ Last(Op.out).res = "AlreadyRunning"
  /\ \E p \in Instances(NginxCmd) :
       /\ pidf[WebFile] = p
       /\ proc[p].conf # GeneratedConf(Op.host, Op.port)
       /\ disk.ragflow = proc[p].conf

\* The server port of the invocation, were `default` the port of an unset
\* SERVER_PORT_FOR_WEB.
PortOr(default) == IF Op.port = 0 THEN default ELSE Op.port

LaunchStep(f) ==
  \/ f = ServerFile /\ Op.pc = "ss_launch" /\ th'[1].pc = "ss_record"
  \/ f \in WorkerFiles /\ Op.pc = "sw_launch" /\ f = WorkerFile(Op.k)
       /\ th'[1].pc = "sw_record"
  \/ f = WebFile /\ Op.pc = "web_launch" /\ th'[1].pc = "web_record"

AdminPrefix == <<"/", "api", "/", "v1", "/", "admin">>
ApiPrefixes == {<<"/", "v1">>, <<"/", "api">>}
AssetPrefixes ==
  {<<"/", "static/css", "/">>, <<"/", "static/js", "/">>, <<"/", "static/media", "/">>}
ToAdmin(r) == r.pass = AdminUpstream
ToServer(p, r) == r.pass = [host |-> proc[p].conf.host, port |-> proc[p].conf.port]
ToFilesWithFallback(r) == r.loc # 0 /\ r.pass = NoUpstream /\ r.try
ToFilesOnly(r) == r.loc # 0 /\ r.pass = NoUpstream /\ ~r.try
Served == {p \in Pids : proc[p].cmd = NginxCmd /\ proc[p].served # NoReq}

\* C19 as the spec states it: a path beginning with /api/v1/admin goes to the
\* admin upstream, any other path beginning with /v1 or /api to the main
\* server, and every remaining path is served from the static root with the
\* fallback to /index.html.
C19_ThreeRoutes ==
  \A p \in Served :
    LET r == proc[p].served IN
    IF IsPrefix(AdminPrefix, r.path) THEN ToAdmin(r) /\ ~ToServer(p, r)
    ELSE IF \E a \in ApiPrefixes : IsPrefix(a, r.path) THEN ToServer(p, r)
    ELSE ToFilesWithFallback(r)

\* C19, amended: a path beginning with /api/v1/admin goes to the admin
\* upstream and never to the main server, any other path beginning with /v1
\* or /api to the main server, a path beginning with /static/css/, /static/js/
\* or /static/media/ is served from the static root without the fallback to
\* /index.html, and every remaining path from the static root with it.
C19_FourRoutes ==
  \A p \in Served :
    LET r == proc[p].served IN
    IF IsPrefix(AdminPrefix, r.path) THEN ToAdmin(r) /\ ~ToServer(p, r)
    ELSE IF \E a \in ApiPrefixes : IsPrefix(a, r.path) THEN ToServer(p, r)
    ELSE IF \E a \in AssetPrefixes : IsPrefix(a, r.path) THEN ToFilesOnly(r)
    ELSE ToFilesWithFallback(r)

\* nginx served a path under /static/css/ from the fourth block, the one
\* without try_files.
C19_Witness ==
  \E p \in Served :
    /\ proc[p].served.path = <<"/", "static/css", "/", "admin">>
    /\ proc[p].served.loc = 4
    /\ ToFilesOnly(proc[p].served)

\* The PID file the stop function the invocation is in is about.
StopTarget ==
  IF Op.pc \in {"xs_check", "xs_stale"} THEN ServerFile
  ELSE IF Op.pc \in {"xweb_check", "xweb_stale"} THEN WebFile
  ELSE Head(Op.glob)
Reported(res, f) ==
  /\ Len(th'[1].out) = Len(Op.out) + 1
  /\ Last(th'[1].out).res = res /\ Last(th'[1].out).f = f
  /\ Last(th'[1].out).fn \in StopFns

\* C21: a stop that finds no PID file reports NotRunning and changes nothing;
\* a stop that finds a PID file naming no live process removes that file,
\* nothing else, and reports NotRunning; neither sends a signal.
C21_StopWithoutLiveRecord ==
  [][/\ Op.pc \in {"xs_check", "xw_check", "xweb_check"} /\ th'[1].pc # Op.pc =>
          /\ pidf[StopTarget] = Absent =>
               /\ Reported("NotRunning", StopTarget)
               /\ proc' = proc /\ pidf' = pidf /\ disk' = disk
               /\ th'[1].sent = Op.sent
          /\ Stale(StopTarget) =>
               /\ th'[1].pc \in {"xs_stale", "xw_stale", "xweb_stale"}
               /\ proc' = proc /\ pidf' = pidf /\ th'[1].sent = Op.sent
     /\ Op.pc \in {"xs_stale", "xw_stale", "xweb_stale"} /\ th'[1].pc # Op.pc =>
          /\ Reported("NotRunning", StopTarget)
          /\ pidf' = [pidf EXCEPT ![StopTarget] = Absent]
          /\ proc' = proc /\ disk' = disk /\ th'[1].sent = Op.sent]_vars

\* stop-ragflow-server found a stale ragflow_server.pid: the file is gone,
\* NotRunning was reported and no signal was sent.
C21_Witness ==
  /\ Op.cmd = "stop-ragflow-server" /\ Op.pc = "done" /\ Op.out # <<>>
  /\ Last(Op.out).res = "NotRunning" /\ Last(Op.out).rc = 0
  /\ Op.sent = <<>> /\ pidf[ServerFile] = Absent
  /\ Op.prev.res = "Started" /\ Op.prev.f = ServerFile

\* The server processes that are alive, were never sent a signal and are not
\* the pid in ragflow_server.pid.
Orphans ==
  {p \in Pids : proc[p].cmd = ServerCmd /\ proc[p].sig = "none" /\ pidf[ServerFile] # p}
Quiescent == \A i \in Invs : th[i].pc \in {"idle", "done"}

\* C22 as the spec states it: whatever the interleaving of starts and stops of
\* the server, once they have returned every live server that was never sent
\* a signal is the pid in ragflow_server.pid.
C22_NoOrphan == Quiescent => Orphans = {}

\* C22, amended: a live server that was never sent a signal and that the PID
\* file does not name is left only when a start or a stop of the server went
\* past its liveness check while another start or stop of it was between its
\* own check and its write or removal of the PID file.
C22_OrphanOnlyByRace ==
  Quiescent /\ Orphans # {} => \E i \in Invs : ServerFile \in th[i].raced

\* A stop removed the PID file that a start running at the same time had
\* just written: the server it launched is alive and nothing names it.
C22_Witness ==
  /\ Quiescent /\ Orphans # {} /\ pidf[ServerFile] = Absent
  /\ \E i, j \in Invs :
       /\ th[i].cmd = "stop-ragflow-server" /\ th[j].cmd = "start-ragflow-server"
       /\ th[j].out # <<>> /\ Last(th[j].out).res = "Started"
       /\ th[i].out # <<>> /\ Last(th[i].out).fn = "stop_ragflow_server"

\* The step in which a start function reports Started for the service of f.
StartedNow(f) ==
  /\ Len(th'[1].out) = Len(Op.out) + 1
  /\ Last(th'[1].out).res = "Started" /\ Last(th'[1].out).f = f
  /\ Last(th'[1].out).fn \in StartFns

\* C23: when a start reports Started for a service, the PID file of the
\* service holds the pid of the process this invocation launched; for the web
\* front end, the pid of the nginx master this start-web launched.
C23_RecordMatchesLaunch ==
  [][\A f \in ServiceFiles :
       StartedNow(f) => Op.pid \in Pids /\ pidf'[f] = Op.pid]_vars

\* The PID file names a live process that is none of the script's.
Reused(f) == pidf[f] \in Pids /\ proc[pidf[f]].cmd = OtherCmd
StartTarget ==
  IF Op.pc = "ss_check" THEN ServerFile
  ELSE IF Op.pc = "web_check" THEN WebFile
  ELSE WorkerFile(Op.k)
StatusTarget ==
  IF Op.pc = "st_server" THEN ServerFile
  ELSE IF Op.pc = "st_web" THEN WebFile
  ELSE Head(Op.glob)
ReportedBy(fn, res, f) ==
  /\ Len(th'[1].out) = Len(Op.out) + 1
  /\ Last(th'[1].out) = Event(fn, f, res, Last(th'[1].out).rc, TRUE, ~Op.touched)

\* C24: when the pid in a service's PID file belongs to a live process that
\* is not the service, status reports the service running, start launches
\* nothing and reports AlreadyRunning, and stop sends SIGTERM to that process.
C24_ReusedPid ==
  [][th'[1].pc # Op.pc =>
       /\ Op.pc \in {"ss_check", "sw_check", "web_check"} /\ Reused(StartTarget) =>
            /\ \E fn \in StartFns : ReportedBy(fn, "AlreadyRunning", StartTarget)
            /\ proc' = proc /\ pidf' = pidf
       /\ Op.pc \in {"st_server", "st_worker", "st_web"} /\ Reused(StatusTarget) =>
            ReportedBy("status", "Running", StatusTarget)
       /\ Op.pc \in {"xs_check", "xw_check", "xweb_check"} /\ Reused(StopTarget) =>
            /\ th'[1].pc \in {"xs_kill", "xw_kill", "xweb_kill"}
            /\ th'[1].pid = pidf[StopTarget]
       /\ Op.pc \in {"xs_kill", "xw_kill", "xweb_kill"} /\ proc[Op.pid].cmd = OtherCmd =>
            /\ proc' = [proc EXCEPT ![Op.pid].sig = "TERM"]
            /\ th'[1].sent = Append(Op.sent, <<Op.pid, "TERM">>)]_vars

\* The server died, its pid went to an unrelated process, and
\* stop-ragflow-server sent that process SIGTERM and reported Stopped.
C24_Witness ==
  /\ Op.cmd = "stop-ragflow-server" /\ Op.pc = "done" /\ Op.out # <<>>
  /\ Last(Op.out).res = "Stopped" /\ Instances(ServerCmd) = {}
  /\ \E p \in Pids :
       /\ proc[p].cmd = OtherCmd /\ proc[p].sig = "TERM"
       /\ Op.sent = << <<p, "TERM">> >>

\* The processes whose command line the pattern of the current phase of
\* force_stop_all matches.
ForceMatches ==
  IF Op.pc = "fs_server" THEN Grep(RAGFLOW_SERVER)
  ELSE IF Op.pc = "fs_workers" THEN Grep(TASK_EXECUTOR)
  ELSE GrepNginx

\* C25: what force-stop signals is determined by the process table and the
\* command-line patterns alone: in each of its three phases it sends SIGKILL
\* to the processes the pattern of the phase matches, to no other process and
\* no other signal, whatever is in the PID files.
C25_ForceStopByProcessTable ==
  [][Op.cmd = "force-stop" /\ Op.pc \notin {"idle", "done"} /\ th'[1].pc # Op.pc =>
       /\ Op.pc \in {"fs_server", "fs_workers", "fs_nginx"} =>
            /\ proc' = SendAll(proc, ForceMatches, "KILL")
            /\ th'[1].sent = SentAll(Op, ForceMatches, "KILL").sent
       /\ Op.pc \notin {"fs_server", "fs_workers", "fs_nginx"} =>
            proc' = proc /\ th'[1].sent = Op.sent]_vars

\* C26: when force_stop_all has returned no PID file is left, whatever it
\* found; the starts of force-restart that follow never report
\* AlreadyRunning: they launch the server and workers 0 to WORKER_COUNT - 1,
\* in that order, and record each.
C26_ForceStopClearsFiles ==
  /\ Op.cmd = "force-stop" /\ Op.pc = "done" => \A f \in Files : pidf[f] = Absent
  /\ Op.cmd = "force-restart" /\ Op.pc = "settle" => \A f \in Files : pidf[f] = Absent
  /\ Op.cmd = "force-restart" =>
       \A k \in DOMAIN Op.out : Op.out[k].res # "AlreadyRunning"
  /\ Op.cmd = "force-restart" /\ Op.pc = "done" =>
       /\ Len(Op.out) = 3 + Op.wc
       /\ Op.out[3] = Event("start_ragflow_server", ServerFile, "Started", 0,
                            Op.out[3].lok, Op.out[3].quiet)
       /\ \A k \in 0..(Op.wc - 1) :
            Op.out[4 + k] = Event("start_worker", WorkerFile(k), "Started", 0,
                                  Op.out[4 + k].lok, Op.out[4 + k].quiet)
       /\ \A f \in Files :
            pidf[f] # Absent <=>
              f = ServerFile \/ \E k \in 0..(Op.wc - 1) : f = WorkerFile(k)

\* force-restart found the server and a worker running and their PID files
\* there, killed them, and launched a new server and two new workers.
C26_Witness ==
  /\ Op.cmd = "force-restart" /\ Op.pc = "done" /\ Op.wc = 2
  /\ Len(Op.sent) = 2 /\ \A k \in DOMAIN Op.sent : Op.sent[k][2] = "KILL"
  /\ Op.prev.res = "Started"
  /\ Cardinality(Instances(ServerCmd)) = 1
  /\ pidf[ServerFile] \in Instances(ServerCmd)
  /\ pidf[WorkerFile(1)] \in Instances(WorkerCmd(1))

\* C27: a service that was running when force-restart began is running
\* again when it has completed; here the web front end, started by the
\* command before with nothing happening in between.
C27_ForceRestartRestartsAll ==
  /\ Op.cmd = "force-restart" /\ Op.pc = "done"
  /\ Op.prev.fn = "start_web" /\ Launched(Op.prev) /\ Op.prev.quiet
  /\ Op.out[1].quiet
  => Instances(NginxCmd) # {}

WorkerCmds == {WorkerCmd(k) : k \in WorkerIds}

\* C28: when stop or stop-workers has returned, no worker PID file is left
\* and every worker that is alive has been sent SIGTERM, whatever
\* WORKER_COUNT was when the workers were started and is now.
C28_StopAllByRecords ==
  Op.cmd \in {"stop", "stop-workers"} /\ Op.pc = "done" =>
    /\ \A f \in WorkerFiles : pidf[f] = Absent
    /\ \A p \in Pids : proc[p].cmd \in WorkerCmds => proc[p].sig = "TERM"

\* Two workers were started with WORKER_COUNT=2; stop-workers with
\* WORKER_COUNT=1 signalled both and removed both files.
C28_Witness ==
  /\ Op.cmd = "stop-workers" /\ Op.pc = "done" /\ Op.given = 1
  /\ Len(Op.sent) = 2
  /\ \E p \in Instances(WorkerCmd(1)) : proc[p].sig = "TERM" /\ Op.sent[2] = <<p, "TERM">>
  /\ Op.prev.res = "Started" /\ Op.prev.f = WorkerFile(1)
  /\ pidf[WorkerFile(1)] = Absent

\* The stops of `stop` and of `restart` are over.
StopPhaseOver ==
  \/ Op.cmd = "stop" /\ Op.pc = "done"
  \/ Op.cmd = "restart" /\ Op.pc = "settle"

\* C29: in stop and restart, a stop that reports NotRunning, of the server or
\* of a worker, keeps no later stop from happening: when the stops are over
\* the server's outcome is followed by one outcome for each worker PID file
\* that was there, no worker file is left and every live worker has been sent
\* SIGTERM.
C29_StopContinuesPastNotRunning ==
  StopPhaseOver /\ (\E k \in DOMAIN Op.out : Op.out[k].res = "NotRunning") =>
    /\ Op.out[1].fn = "stop_ragflow_server"
    /\ \A k \in 2..Len(Op.out) : Op.out[k].fn = "stop_worker"
    /\ \A j, k \in 2..Len(Op.out) : j < k => Op.out[j].f # Op.out[k].f
    /\ \A f \in WorkerFiles : pidf[f] = Absent
    /\ \A p \in Pids : proc[p].cmd \in WorkerCmds => proc[p].sig = "TERM"

\* The server and worker 0 had died: stop reported NotRunning for both and
\* went on to stop worker 1.
C29_Witness ==
  /\ Op.cmd = "stop" /\ Op.pc = "done" /\ Len(Op.out) = 3
  /\ Op.out[1].res = "NotRunning" /\ Op.out[2].res = "NotRunning"
  /\ Op.out[3] = Event("stop_worker", WorkerFile(1), "Stopped", 0, TRUE, Op.out[3].quiet)
  /\ \E p \in Instances(WorkerCmd(1)) : Op.sent = << <<p, "TERM">> >>

\* A step of a command for the server or the workers.
FrameStep == Op.cmd \in FrameCommands /\ Op.pc \notin {"idle", "done"} /\ th'[1].pc # Op.pc
WebFilesKept ==
  /\ pidf'[WebFile] = pidf[WebFile] /\ pidf'[NginxFile] = pidf[NginxFile]
  /\ disk'.ragflow = disk.ragflow /\ disk'.main = disk.main
  /\ disk'.logs[WebFile] = disk.logs[WebFile]
  /\ Instances(NginxCmd)' \subseteq Instances(NginxCmd)

\* C30 as the spec states it: the commands for the server and the workers
\* never launch nginx, never signal it, and leave web_frontend.pid, nginx.pid
\* and the generated configuration as they are.
C30_WebUntouched ==
  [][FrameStep =>
       /\ WebFilesKept
       /\ \A p \in Instances(NginxCmd) : proc'[p] = proc[p]]_vars

\* C30, amended: they never launch nginx and leave the two PID files and the
\* configuration as they are; nginx is signalled by them only when a stop
\* finds its pid in the PID file of the server or of a worker, and then it is
\* sent SIGTERM.
C30_WebUntouchedButByReusedPid ==
  [][FrameStep =>
       /\ WebFilesKept
       /\ \A p \in Instances(NginxCmd) :
            \/ proc'[p] = proc[p]
            \/ /\ Op.pc \in {"xs_kill", "xw_kill"} /\ Op.pid = p
               /\ \E f \in {ServerFile} \cup WorkerFiles : pidf[f] = p
               /\ proc'[p] = [proc[p] EXCEPT !.sig = "TERM"]]_vars

\* The server died, nginx was given its pid, and stop took nginx for the
\* server: nginx was sent SIGTERM, and web_frontend.pid still names it.
C30_Witness ==
  /\ Op.cmd \in {"stop", "stop-ragflow-server"} /\ Op.out # <<>>
  /\ Op.out[1].res = "Stopped" /\ Op.sent # <<>>
  /\ \E p \in Instances(NginxCmd) :
       /\ Op.sent[1] = <<p, "TERM">> /\ proc[p].sig = "TERM"
       /\ pidf[WebFile] = p /\ pidf[NginxFile] = p

\* ---------------------------------------------------------------- C31
\* The start-web of the operator ended with a failure before its launch step.
FailedBeforeLaunch ==
  /\ Op.cmd = "start-web" /\ Op.pc = "done"
  /\ Last(Op.out).rc # 0
  /\ Last(Op.out).res \notin {"Started", "NoPid", "AlreadyRunning"}

\* WEB_PORT is a decimal integer in 1..65535.
PortInRange(text) ==
  /\ IsDecimal(text)
  /\ Len(Significant(text)) <= 5
  /\ Value(Significant(text)) \in 1..65535

\* C31: whenever start-web fails before the launch step because the web
\* directory, npm, nginx or dist/ is missing, the install or the build
\* failed, or WEB_PORT is not a decimal integer in 1..65535, then nginx was
\* not launched, no PID file was created or changed, and the proxy
\* configuration files were not rewritten.
C31_PreLaunchFailureChangesNothing ==
  FailedBeforeLaunch
  /\ (Last(Op.out).res \in PreFailures \/ ~PortInRange(WEB_PORT(Op.wport)))
  => /\ pidf = Op.pidf0
     /\ disk = Op.disk0

\* ---------------------------------------------------------------- C32
\* The PID file holds no pid: no text, "0" or a negative number.
Blank(f) == pidf[f] \in BadContents

\* C32: the liveness check is false for an empty, zero, negative or
\* nonexistent pid; so with a PID file that holds no pid a start goes on to
\* launch and writes the pid of the launched process over it, a stop removes
\* the file and reports NotRunning without sending a signal, and status
\* reports NotRunning.
C32_BlankPidFileNotRunning ==
  [][th'[1].pc # Op.pc =>
       /\ \A c \in BadContents \cup {p \in 1..(MaxPid + 1) : p \notin Pids \/ proc[p] = NoProc} :
            ~is_process_running(c)
       /\ Op.pc \in {"ss_check", "web_check"} /\ Blank(StartTarget) =>
            /\ th'[1].pc \in {"ss_launch", "web_pre"}
            /\ Len(th'[1].out) = Len(Op.out)
       /\ Op.pc = "ss_record" /\ Blank(ServerFile) =>
            pidf' = [pidf EXCEPT ![ServerFile] = Op.pid] /\ Op.pid \in Pids
       /\ Op.pc = "web_record" /\ Blank(WebFile) /\ pidf[NginxFile] = Op.pid /\ Op.lok =>
            pidf' = [pidf EXCEPT ![WebFile] = Op.pid] /\ Op.pid \in Pids
       /\ Op.pc \in {"xs_check", "xweb_check"} /\ Blank(StopTarget) =>
            /\ th'[1].pc \in {"xs_stale", "xweb_stale"}
            /\ proc' = proc /\ pidf' = pidf /\ th'[1].sent = Op.sent
       /\ Op.pc \in {"xs_stale", "xweb_stale"} /\ Blank(StopTarget) =>
            /\ Reported("NotRunning", StopTarget)
            /\ pidf' = [pidf EXCEPT ![StopTarget] = Absent]
            /\ proc' = proc /\ th'[1].sent = Op.sent
       /\ Op.pc \in {"st_server", "st_worker", "st_web"} /\ Blank(StatusTarget) =>
            ReportedBy("status", "NotRunning", StatusTarget)]_vars

\* ragflow_server.pid lost its pid while the server ran;
\* start-ragflow-server launched a second server and wrote its pid over the
\* empty file.
C32_Witness ==
  /\ Op.cmd = "start-ragflow-server" /\ Op.pc = "done" /\ Op.out # <<>>
  /\ Last(Op.out).res = "Started" /\ Op.prev.res = "Started"
  /\ ~Op.prev.quiet
  /\ pidf[ServerFile] \in Pids /\ proc[pidf[ServerFile]].cmd = ServerCmd
  /\ Cardinality(Instances(ServerCmd)) = 2

\* ---------------------------------------------------------------- C33
\* The outcomes a command reported for the PID file f from function fn.
OutcomesOf(fn, f) == {k \in DOMAIN Op.out : Op.out[k].fn = fn /\ Op.out[k].f = f}

\* start_workers ran start_worker once for each of the WORKER_COUNT workers;
\* stop_workers and status went to no worker PID file twice.
LoopsBounded ==
  /\ Op.cmd \in {"start", "restart", "force-restart"} =>
       \A k \in WorkerIds :
         Cardinality(OutcomesOf("start_worker", WorkerFile(k)))
           = IF k < Op.wc THEN 1 ELSE 0
  /\ Op.cmd \in {"stop", "restart"} =>
       \A f \in WorkerFiles : Cardinality(OutcomesOf("stop_worker", f)) <= 1
  /\ Op.cmd = "status" =>
       \A f \in WorkerFiles : Cardinality(OutcomesOf("status", f)) <= 1

\* C33: each of start, stop, restart, force-stop, force-restart and status,
\* once typed, comes to its end, whether or not any process it launched or
\* signalled ever exits; at its end start_workers has run start_worker
\* WORKER_COUNT times, and stop_workers and status at most once for a worker
\* PID file.
C33_EveryCommandTerminates ==
  /\ (Op.cmd \in LiveCommands \ {"start-web"} /\ Op.pc \notin {"idle", "done"})
        ~> (Op.pc = "done")
  /\ [](Op.cmd \in LiveCommands /\ Op.pc = "done" => LoopsBounded)

\* restart has ended: it stopped the server, which is still alive with its
\* SIGTERM pending, slept, and started a second server.
C33_Witness ==
  /\ Op.cmd = "restart" /\ Op.pc = "done"
  /\ Op.out[1].res = "Stopped" /\ Settled(Op.out)
  /\ \E p \in Instances(ServerCmd) : proc[p].sig = "TERM" /\ Op.sent[1] = <<p, "TERM">>
  /\ pidf[ServerFile] \in Pids /\ proc[pidf[ServerFile]].sig = "none"

\* ---------------------------------------------------------------- C34
\* The patcher has run to its normal end on a plugin file, which now holds
\* the output of that run.
RanOnFile == Op.cmd = PatchCmd /\ Op.pc = "done" /\ Op.rc = 0 /\ Op.before.exists

\* C34: a second run of the patcher on the output of a first run applies no
\* fix, does not write the file, and leaves the content as the first run
\* left it.
C34_PatcherIdempotent ==
  [][RanOnFile /\ th'[1] # th[1] =>
       /\ th'[1].before = disk.plugin
       /\ th'[1].fixes = {}
       /\ \A k \in DOMAIN th'[1].io : th'[1].io[k] # "write"
       /\ disk'.plugin = disk.plugin]_vars

\* The first run applied the three fixes and wrote the file; the second run
\* read it, applied none and left it as it was.
C34_Witness ==
  /\ RanOnFile /\ Op.k = 2
  /\ Op.fixes0 = {1, 2, 3} /\ Op.fixes = {} /\ Op.io = <<"read">>
  /\ disk.plugin = Op.before
  /\ includes(disk.plugin.text, WatchAlwaysArg)

\* ---------------------------------------------------------------- C35
\* C35: after the patcher has run on a plugin file, the file holds no
\* argument "--watch" (with its quotes): every one has been replaced by
\* "--watch=always", also when the file held some "--watch=always" before
\* the run.
C35_NoWatchArgLeft ==
  RanOnFile =>
    /\ ~includes(disk.plugin.text, WatchArg)
    /\ includes(Op.before.text, WatchArg) => includes(disk.plugin.text, WatchAlwaysArg)

\* ---------------------------------------------------------------- C36
\* The number written at place k of a text: its digits up to the first piece
\* that is no digit.
RECURSIVE NumberAt(_, _)
NumberAt(s, k) ==
  IF k <= Len(s) /\ s[k] \in {"0", "5", "6"}
  THEN <<s[k]>> \o NumberAt(s, k + 1) ELSE <<>>

\* The values assigned to CHECK_TIMEOUT_UNIT_SECOND in a text, in order.
RECURSIVE AssignedFrom(_, _)
AssignedFrom(s, k) ==
  IF k > Len(s) THEN <<>>
  ELSE IF s[k] = TIMEOUT THEN <<NumberAt(s, k + 1)>> \o AssignedFrom(s, k + 1)
  ELSE AssignedFrom(s, k + 1)
Assigned(s) == AssignedFrom(s, 1)

\* C36: after a run every assignment CHECK_TIMEOUT_UNIT_SECOND = 5 has
\* become CHECK_TIMEOUT_UNIT_SECOND = 60, and the assignment of any other
\* value (50, 500, ...) is as it was.
C36_OnlyFiveSecondTimeout ==
  RanOnFile =>
    LET was == Assigned(Op.before.text)
        is == Assigned(disk.plugin.text)
    IN
    /\ Len(is) = Len(was)
    /\ \A n \in DOMAIN was :
         is[n] = IF was[n] = <<"5">> THEN <<"6", "0">> ELSE was[n]

\* ---------------------------------------------------------------- C37
\* The run called writeFileSync.
Wrote == \E k \in DOMAIN Op.io : Op.io[k] = "write"

\* C37: the patcher writes the plugin file exactly when the fixes changed
\* the content it read, and then writes the changed content; with no plugin
\* file it reads and writes nothing and exits with status 0; when the read
\* or the write throws it exits with status 1.
C37_WritesOnlyOnChange ==
  Op.cmd = PatchCmd /\ Op.pc = "done" =>
    IF ~Op.before.exists
    THEN Op.io = <<>> /\ Op.rc = 0 /\ disk.plugin = Op.before
    ELSE LET fixed == fixTailwindcssPlugin(Op.before.text).content IN
         /\ Op.threw = "" =>
              /\ Wrote <=> fixed # Op.before.text
              /\ Op.rc = 0
              /\ disk.plugin = [exists |-> TRUE, text |-> fixed]
         /\ Op.threw = "read" => ~Wrote /\ Op.rc = 1 /\ disk.plugin = Op.before
         /\ Op.threw = "write" => Wrote /\ Op.rc = 1 /\ fixed # Op.before.text

\* A first run changed the content and wrote it; in the second run nothing
\* was to be fixed and the file was read only.
C37_Witness ==
  /\ Op.cmd = PatchCmd /\ Op.pc = "done" /\ Op.k = 2
  /\ Op.fixes0 # {} /\ Op.io = <<"read">> /\ Op.threw = "" /\ Op.rc = 0
  /\ Op.before.exists /\ disk.plugin = Op.before
  /\ includes(disk.plugin.text, TimeoutIs60)

====
